---- MODULE Spec2Model ----
(***************************************************************************)
(* Model of the metro status display: the Status Fetcher (metro.py), the   *)
(* Frame Renderer (display.py) and the Process Supervisor                  *)
(* (run_display.py).                                                       *)
(*                                                                         *)
(* The module holds several specifications over one set of variables; each *)
(* specification exercises one component and leaves the variables of the   *)
(* other components at their initial values:                               *)
(*   SpecHours       the clock functions of metro.py on one clock reading  *)
(*   SpecFetcher     the cycles of metro.py main                           *)
(*   SpecRenderer    MetroDisplay.update_display / show_error              *)
(*   SpecSupervisor  MetroDisplayRunner.run with its two children          *)
(*   SpecLock        several instances of run_display.py main              *)
(*   SpecPipe        a producer writing to the stdin of display.py         *)
(*   SpecGlyph       draw_5x7_char and draw_5x7_text                       *)
(*   SpecDisplay     display.py main reading its stdin                     *)
(*                                                                         *)
(* Times of day are seconds since midnight (datetime.time compared at      *)
(* second resolution); strings that are indexed or scanned by the code are *)
(* sequences of one-character strings.                                     *)
(***************************************************************************)
EXTENDS Integers, Sequences, FiniteSets, TLC

VARIABLES
    h_pc, h_dow, h_now, h_operating, h_period,
    f_pc, f_dow, f_now, f_api, f_pipe_ok, f_out, f_delay, f_alive, f_exc,
    f_called_api, f_cycles,
    r_pc, r_data, r_hw_fail, r_frame, r_pushed, r_exc,
    lock_file, l_pc, l_pid,
    running, metro_process, display_process, s_pc, s_ret, s_hpc, s_signals,
    s_exc, s_pairs, next_pid, p_kind, p_state, p_err, p_stdout,
    w_pc, w_producer, w_now, w_emit_at, w_read_at, w_pipe, w_emitted,
    w_rendered, w_pair, w_fetcher_alive, w_renderer_alive,
    g_pc, g_x, g_y, g_text, g_frame, g_width,
    d_pc, d_hw_ok, d_stdin, d_eof, d_written, d_line, d_station_data,
    d_shown, d_delay, d_exit, d_status, d_reads, d_errors, d_spawns,
    d_init_failed

hoursVars == <<h_pc, h_dow, h_now, h_operating, h_period>>
fetcherVars == <<f_pc, f_dow, f_now, f_api, f_pipe_ok, f_out, f_delay,
                 f_alive, f_exc, f_called_api, f_cycles>>
rendererVars == <<r_pc, r_data, r_hw_fail, r_frame, r_pushed, r_exc>>
lockVars == <<lock_file, l_pc, l_pid>>
supervisorVars == <<running, metro_process, display_process, s_pc, s_ret,
                    s_hpc, s_signals, s_exc, s_pairs, next_pid, p_kind,
                    p_state, p_err, p_stdout>>
pipeVars == <<w_pc, w_producer, w_now, w_emit_at, w_read_at, w_pipe, w_emitted,
              w_rendered, w_pair, w_fetcher_alive, w_renderer_alive>>
glyphVars == <<g_pc, g_x, g_y, g_text, g_frame, g_width>>
displayVars == <<d_pc, d_hw_ok, d_stdin, d_eof, d_written, d_line,
                 d_station_data, d_shown, d_delay, d_exit, d_status, d_reads,
                 d_errors, d_spawns, d_init_failed>>
vars == <<hoursVars, fetcherVars, rendererVars, lockVars, supervisorVars,
          pipeVars, glyphVars,
                   displayVars>>
notLock == <<hoursVars, fetcherVars, rendererVars, supervisorVars, pipeVars,
             glyphVars,
                   displayVars>>
notSupervisor == <<hoursVars, fetcherVars, rendererVars, l_pc, l_pid,
                   pipeVars, glyphVars,
                   displayVars>>

(***************************************************************************)
(* Clock                                                                   *)
(***************************************************************************)

\* datetime.time(h, m) as seconds since midnight
time(h, m) == h * 3600 + m * 60

DaySeconds == 24 * 3600

\* datetime.weekday(): Monday is 0, Sunday is 6
DaysOfWeek == 0 .. 6

\* Clock readings of SpecHours: every whole minute of the day and the second
\* before it.  Every boundary the code compares against is a whole minute, so
\* both sides of every boundary are covered.
HourTimes == { t \in 0 .. DaySeconds - 1 : t % 60 \in {0, 59} }

\* datetime.now().weekday() < 5
current_weekday(dow) == dow < 5

weekday_start == time(5, 30)
weekday_end == time(1, 0)
weekend_start == time(5, 30)
weekend_end == time(1, 30)

\* BERRI_UQAM["operating_hours"]: "5:30 AM - 12:30 AM" and "5:30 AM - 1:00 AM"
published_open == time(5, 30)
published_close_weekday == time(0, 30)
published_close_weekend == time(1, 0)

is_metro_operating_strict_start(dow, now) ==
    IF current_weekday(dow)
    THEN IF weekday_start < now THEN TRUE
         ELSE IF now <= weekday_end THEN TRUE
         ELSE FALSE
    ELSE IF weekend_start < now THEN TRUE
         ELSE IF now <= weekend_end THEN TRUE
         ELSE FALSE

is_metro_operating(dow, now) ==
    IF current_weekday(dow)
    THEN IF weekday_start <= now THEN TRUE
         ELSE IF now <= weekday_end THEN TRUE
         ELSE FALSE
    ELSE IF weekend_start <= now THEN TRUE
         ELSE IF now <= weekend_end THEN TRUE
         ELSE FALSE

\* strptime("06:30", "%H:%M").time() and the other three boundaries
get_current_time_period(dow, now) ==
    IF ~current_weekday(dow) THEN "weekend"
    ELSE IF now >= time(6, 30) /\ now < time(9, 30) THEN "am_peak"
    ELSE IF now >= time(15, 30) /\ now < time(18, 30) THEN "pm_peak"
    ELSE IF now >= time(21, 0) THEN "evening"
    ELSE "off_peak"

(***************************************************************************)
(* Status Fetcher (metro.py)                                               *)
(***************************************************************************)

\* BERRI_UQAM["name"], ["lines"], ["connections"], ["operating_hours"]
BERRI_UQAM_name == "Berri-UQAM"

BERRI_UQAM_lines == ("1" :> "Green Line") @@ ("2" :> "Orange Line")

BERRI_UQAM_connections ==
    ("1" :> "Angrignon - Honore-Beaugrand") @@ ("2" :> "Cote-Vertu - Montmorency")

BERRI_UQAM_operating_hours ==
    [weekday |-> "5:30 AM - 12:30 AM", weekend |-> "5:30 AM - 1:00 AM"]

\* BERRI_UQAM["frequencies"]
line_frequencies ==
    [morning_peak |-> "2-4 minutes", afternoon_peak |-> "2-4 minutes",
     off_peak |-> "3-5 minutes", late_evening |-> "8-10 minutes",
     weekend |-> "4-8 minutes"]

BERRI_UQAM_frequencies == ("1" :> line_frequencies) @@ ("2" :> line_frequencies)

\* sorted(BERRI_UQAM["lines"].keys())
sorted_line_numbers == <<"1", "2">>

\* One message of the API response, as far as get_station_status reads it:
\*   routes  the route_short_name of each informed entity, in order
\*   texts   "en": description_texts/header_texts hold an English text;
\*           "fr": only a French one; "bad": an entry without "language"
\*   start   active_periods.start/end: "null", "int" (a Unix timestamp) or
\*           "str" (a value datetime.fromtimestamp rejects)
EntityLists == {<<>>, <<"1">>, <<"2">>, <<"4">>, <<"4", "1">>}

MessageShapes ==
    {[texts |-> "en", start |-> "int"], [texts |-> "fr", start |-> "null"],
     [texts |-> "bad", start |-> "int"], [texts |-> "en", start |-> "str"]}

Messages ==
    { [routes |-> r, texts |-> sh.texts, start |-> sh.start] :
        r \in EntityLists, sh \in MessageShapes }

MaxMessages == 2

SeqsUpTo(S, n) == UNION { [1 .. k -> S] : k \in 0 .. n }

\* Outcome of requests.get / raise_for_status / response.json
ApiOutcomes ==
    [kind : {"timeout", "http_error", "bad_json"}, messages : {<<>>}]
    \cup [kind : {"ok"}, messages : SeqsUpTo(Messages, MaxMessages)]

\* the two next(...) expressions of get_station_status: the English text, else
\* the first text, else the default; raises KeyError on an entry without
\* "language"
alert_text(m) ==
    [raised |-> m.texts = "bad",
     text |-> IF m.texts = "en" THEN "english text" ELSE "french text"]

\* inner loop of get_station_status over alert["informed_entities"]
RECURSIVE scan_entities(_, _, _)
scan_entities(m, i, acc) ==
    IF acc.raised \/ i > Len(m.routes) THEN acc
    ELSE LET route_name == m.routes[i] IN
         IF route_name \in DOMAIN BERRI_UQAM_lines
         THEN IF alert_text(m).raised
              THEN [acc EXCEPT !.raised = TRUE]
              ELSE IF route_name \notin DOMAIN acc.alerts
                   THEN scan_entities(m, i + 1,
                          [acc EXCEPT !.alerts = @ @@ (route_name :>
                             [line_name |-> BERRI_UQAM_lines[route_name],
                              status |-> alert_text(m).text,
                              header |-> alert_text(m).text,
                              start_time |-> m.start,
                              end_time |-> m.start])])
                   ELSE scan_entities(m, i + 1, acc)
         ELSE scan_entities(m, i + 1, acc)

\* outer loop of get_station_status over data["messages"]
RECURSIVE scan_messages(_, _, _)
scan_messages(msgs, k, acc) ==
    IF acc.raised \/ k > Len(msgs) THEN acc
    ELSE scan_messages(msgs, k + 1, scan_entities(msgs[k], 1, acc))

\* get_station_status: isNone is the "return None" of both except clauses
get_station_status(api) ==
    IF api.kind # "ok"
    THEN [isNone |-> TRUE, alerts |-> <<>>]
    ELSE LET r == scan_messages(api.messages, 1,
                                [raised |-> FALSE, alerts |-> <<>>])
         IN IF r.raised THEN [isNone |-> TRUE, alerts |-> <<>>]
            ELSE [isNone |-> FALSE, alerts |-> r.alerts]

\* format_timestamp: raises TypeError on a value that is not a number
format_timestamp(timestamp) ==
    [raised |-> timestamp = "str",
     text |-> IF timestamp = "null" THEN "No end time specified"
              ELSE "formatted time"]

line_data_of_always_normal(line_number, station_alerts, current_period) ==
    LET frequencies == BERRI_UQAM_frequencies[line_number]
    IN IF current_period \notin DOMAIN frequencies
       THEN [exc |-> "KeyError", data |-> <<>>]
       ELSE [exc |-> "none",
             data |-> [name |-> BERRI_UQAM_lines[line_number],
                       route |-> BERRI_UQAM_connections[line_number],
                       current_frequency |-> frequencies[current_period],
                       all_frequencies |-> frequencies,
                       status |-> "normal"]]

\* body of the for loop of get_station_data for one line
line_data_of(line_number, station_alerts, current_period) ==
    LET frequencies == BERRI_UQAM_frequencies[line_number]
        base == [name |-> BERRI_UQAM_lines[line_number],
                 route |-> BERRI_UQAM_connections[line_number],
                 current_frequency |->
                     IF current_period \in DOMAIN frequencies
                     THEN frequencies[current_period] ELSE "",
                 all_frequencies |-> frequencies,
                 status |-> "normal"]
    IN IF current_period \notin DOMAIN frequencies
       THEN [exc |-> "KeyError", data |-> base]
       ELSE IF line_number \in DOMAIN station_alerts
       THEN LET alert == station_alerts[line_number] IN
            IF format_timestamp(alert.start_time).raised
               \/ format_timestamp(alert.end_time).raised
            THEN [exc |-> "TypeError", data |-> base]
            ELSE [exc |-> "none",
                  data |-> [status |-> "alert",
                            alert_description |-> alert.status,
                            alert_header |-> alert.header,
                            alert_start |-> format_timestamp(alert.start_time).text,
                            alert_end |-> format_timestamp(alert.end_time).text]
                           @@ base]
       ELSE [exc |-> "none", data |-> base]

\* get_station_data: exc is the exception that leaves the function, isNone its
\* "return None", data the dictionary it returns otherwise
get_station_data(api, dow, now) ==
    LET station_alerts == get_station_status(api)
        current_period == get_current_time_period(dow, now)
        l1 == line_data_of(sorted_line_numbers[1], station_alerts.alerts,
                           current_period)
        l2 == line_data_of(sorted_line_numbers[2], station_alerts.alerts,
                           current_period)
        station_data == [station_name |-> BERRI_UQAM_name,
                         operating_hours |-> BERRI_UQAM_operating_hours,
                         current_time_period |-> current_period,
                         lines |-> <<>>]
    IN IF station_alerts.isNone
       THEN [exc |-> "none", isNone |-> TRUE, data |-> station_data]
       ELSE IF l1.exc # "none"
       THEN [exc |-> l1.exc, isNone |-> FALSE, data |-> station_data]
       ELSE IF l2.exc # "none"
       THEN [exc |-> l2.exc, isNone |-> FALSE, data |-> station_data]
       ELSE [exc |-> "none", isNone |-> FALSE,
             data |-> [station_data EXCEPT !.lines =
                          (sorted_line_numbers[1] :> l1.data)
                          @@ (sorted_line_numbers[2] :> l2.data)]]

closed_data_flag_true ==
    [station_name |-> BERRI_UQAM_name,
     operating_hours |-> BERRI_UQAM_operating_hours,
     current_time_period |-> "closed",
     lines |-> <<>>,
     is_operating |-> TRUE]

\* the dictionary main prints while the metro is closed
closed_data ==
    [station_name |-> BERRI_UQAM_name,
     operating_hours |-> BERRI_UQAM_operating_hours,
     current_time_period |-> "closed",
     lines |-> <<>>,
     is_operating |-> FALSE]

\* print(json.dumps(d), flush=True): the line reaches the pipe, or the write
\* raises BrokenPipeError when the reading end is gone
print_line(d, pipe_ok) ==
    IF pipe_ok THEN [exc |-> "none", out |-> <<d>>]
    ELSE [exc |-> "BrokenPipeError", out |-> <<>>]

\* One iteration of the while loop of main: the lines written to stdout, the
\* sleep that ends the iteration, the exception the except clause caught, and
\* whether the loop goes on
main_cycle_unguarded(dow, now, api, pipe_ok) ==
    IF is_metro_operating(dow, now)
    THEN LET r == get_station_data(api, dow, now) IN
         IF r.exc # "none"
         THEN [out |-> <<>>, delay |-> 5, exc |-> r.exc, alive |-> TRUE,
               called_api |-> TRUE]
         ELSE LET p == print_line(r.data, pipe_ok) IN
              IF p.exc # "none"
              THEN [out |-> <<>>, delay |-> 5, exc |-> p.exc,
                    alive |-> TRUE, called_api |-> TRUE]
              ELSE [out |-> p.out, delay |-> 30, exc |-> "none",
                    alive |-> TRUE, called_api |-> TRUE]
    ELSE LET p == print_line(closed_data, pipe_ok) IN
         IF p.exc # "none"
         THEN [out |-> <<>>, delay |-> 5, exc |-> p.exc, alive |-> TRUE,
               called_api |-> FALSE]
         ELSE [out |-> p.out, delay |-> 300, exc |-> "none", alive |-> TRUE,
               called_api |-> FALSE]

main_cycle(dow, now, api, pipe_ok) ==
    IF is_metro_operating(dow, now)
    THEN LET r == get_station_data(api, dow, now) IN
         IF r.exc # "none"
         THEN [out |-> <<>>, delay |-> 5, exc |-> r.exc, alive |-> TRUE,
               called_api |-> TRUE]
         ELSE IF ~r.isNone
         THEN LET p == print_line(r.data, pipe_ok) IN
              IF p.exc # "none"
              THEN [out |-> <<>>, delay |-> 5, exc |-> p.exc,
                    alive |-> TRUE, called_api |-> TRUE]
              ELSE [out |-> p.out, delay |-> 30, exc |-> "none",
                    alive |-> TRUE, called_api |-> TRUE]
         ELSE [out |-> <<>>, delay |-> 30, exc |-> "none", alive |-> TRUE,
               called_api |-> TRUE]
    ELSE LET p == print_line(closed_data, pipe_ok) IN
         IF p.exc # "none"
         THEN [out |-> <<>>, delay |-> 5, exc |-> p.exc, alive |-> TRUE,
               called_api |-> FALSE]
         ELSE [out |-> p.out, delay |-> 300, exc |-> "none", alive |-> TRUE,
               called_api |-> FALSE]

(***************************************************************************)
(* Frame Renderer (display.py)                                             *)
(*                                                                         *)
(* An image is the set of its lit pixels <<x, y, rgb>>; a pixel that is    *)
(* not in the set has the colour "off".  Drawing outside the 64x32 image   *)
(* is clipped, as PIL does.                                                *)
(***************************************************************************)

image_width == 64

image_height == 32

\* self.colors
colors ==
    [normal |-> <<0, 255, 0>>, weekend |-> <<255, 255, 0>>,
     alert |-> <<255, 0, 0>>, white |-> <<255, 255, 255>>,
     off |-> <<0, 0, 0>>, green_line |-> <<0, 200, 0>>,
     orange_line |-> <<255, 165, 0>>]

InFrame(q) ==
    /\ q[1] >= 0
    /\ q[1] < image_width
    /\ q[2] >= 0
    /\ q[2] < image_height

\* ImageDraw.point / rectangle / ellipse: the points take the colour
Paint(img, pts, rgb) ==
    { p \in img : <<p[1], p[2]>> \notin pts }
    \cup (IF rgb = colors.off THEN {}
          ELSE { <<q[1], q[2], rgb>> : q \in { t \in pts : InFrame(t) } })

\* ImageDraw.rectangle([(x0, y0), (x1, y1)], fill): both corners included
RectPoints(x0, y0, x1, y1) == (x0 .. x1) \X (y0 .. y1)

\* the characters of each string value that the Renderer scans
chars(s) ==
    CASE s = "morning_peak" -> <<"m", "o", "r", "n", "i", "n", "g", "_", "p", "e", "a", "k">>
      [] s = "afternoon_peak" -> <<"a", "f", "t", "e", "r", "n", "o", "o", "n", "_", "p", "e", "a", "k">>
      [] s = "off_peak" -> <<"o", "f", "f", "_", "p", "e", "a", "k">>
      [] s = "late_evening" -> <<"l", "a", "t", "e", "_", "e", "v", "e", "n", "i", "n", "g">>
      [] s = "weekend" -> <<"w", "e", "e", "k", "e", "n", "d">>
      [] s = "closed" -> <<"c", "l", "o", "s", "e", "d">>
      [] s = "am_peak" -> <<"a", "m", "_", "p", "e", "a", "k">>
      [] s = "pm_peak" -> <<"p", "m", "_", "p", "e", "a", "k">>
      [] s = "evening" -> <<"e", "v", "e", "n", "i", "n", "g">>
      [] s = "2-4 minutes" -> <<"2", "-", "4", " ", "m", "i", "n", "u", "t", "e", "s">>
      [] s = "3-5 minutes" -> <<"3", "-", "5", " ", "m", "i", "n", "u", "t", "e", "s">>
      [] s = "4-8 minutes" -> <<"4", "-", "8", " ", "m", "i", "n", "u", "t", "e", "s">>
      [] s = "8-10 minutes" -> <<"8", "-", "1", "0", " ", "m", "i", "n", "u", "t", "e", "s">>
      [] s = "Green Line" -> <<"G", "r", "e", "e", "n", " ", "L", "i", "n", "e">>
      [] s = "Orange Line" -> <<"O", "r", "a", "n", "g", "e", " ", "L", "i", "n", "e">>
      [] s = "Blue Line" -> <<"B", "l", "u", "e", " ", "L", "i", "n", "e">>
      [] s = "orange line" -> <<"o", "r", "a", "n", "g", "e", " ", "l", "i", "n", "e">>
      [] s = "" -> <<>>
      [] s = "minutes" -> <<"m", "i", "n", "u", "t", "e", "s">>
      [] s = "min" -> <<"m", "i", "n">>

\* str.upper and str.lower on one character
lower_of ==
    ("A" :> "a") @@ ("B" :> "b") @@ ("C" :> "c") @@ ("D" :> "d") @@
    ("E" :> "e") @@ ("F" :> "f") @@ ("G" :> "g") @@ ("H" :> "h") @@
    ("I" :> "i") @@ ("J" :> "j") @@ ("K" :> "k") @@ ("L" :> "l") @@
    ("M" :> "m") @@ ("N" :> "n") @@ ("O" :> "o") @@ ("P" :> "p") @@
    ("Q" :> "q") @@ ("R" :> "r") @@ ("S" :> "s") @@ ("T" :> "t") @@
    ("U" :> "u") @@ ("V" :> "v") @@ ("W" :> "w") @@ ("X" :> "x") @@
    ("Y" :> "y") @@ ("Z" :> "z")

lower(c) == IF c \in DOMAIN lower_of THEN lower_of[c] ELSE c

upper(c) ==
    IF \E u \in DOMAIN lower_of : lower_of[u] = c
    THEN CHOOSE u \in DOMAIN lower_of : lower_of[u] = c
    ELSE c

isalpha(c) == \E u \in DOMAIN lower_of : c = u \/ c = lower_of[u]

upper_text(text) == [i \in 1 .. Len(text) |-> upper(text[i])]

\* str.replace(old, new): every occurrence, scanning from the left
RECURSIVE replace(_, _, _)
replace(text, old, new) ==
    IF Len(text) < Len(old) \/ Len(old) = 0 THEN text
    ELSE IF SubSeq(text, 1, Len(old)) = old
    THEN new \o replace(SubSeq(text, Len(old) + 1, Len(text)), old, new)
    ELSE <<text[1]>> \o replace(Tail(text), old, new)

\* self.font_5x7 as the literal of setup_5x7_font: five column bytes for each
\* character, bit r of a byte is row r
font_5x7_literal ==
    ("0" :> <<62, 81, 73, 69, 62>>) @@ ("1" :> <<0, 66, 127, 64, 0>>) @@
    ("2" :> <<66, 97, 81, 73, 70>>) @@ ("3" :> <<33, 65, 69, 75, 49>>) @@
    ("4" :> <<24, 20, 18, 127, 16>>) @@ ("5" :> <<39, 69, 69, 69, 57>>) @@
    ("6" :> <<60, 74, 73, 73, 48>>) @@ ("7" :> <<1, 113, 9, 5, 3>>) @@
    ("8" :> <<54, 73, 73, 73, 54>>) @@ ("9" :> <<6, 73, 73, 41, 30>>) @@
    ("-" :> <<8, 8, 8, 8, 8>>) @@ (":" :> <<0, 54, 54, 0, 0>>) @@
    ("!" :> <<0, 0, 95, 0, 0>>) @@ (" " :> <<0, 0, 0, 0, 0>>) @@
    ("A" :> <<126, 17, 17, 17, 126>>) @@ ("D" :> <<127, 65, 65, 65, 62>>) @@
    ("E" :> <<127, 73, 73, 73, 65>>) @@ ("F" :> <<127, 9, 9, 9, 1>>) @@
    ("G" :> <<62, 65, 73, 73, 58>>) @@ ("I" :> <<0, 65, 127, 65, 0>>) @@
    ("K" :> <<127, 8, 20, 34, 65>>) @@ ("L" :> <<127, 64, 64, 64, 64>>) @@
    ("M" :> <<127, 2, 12, 2, 127>>) @@ ("N" :> <<127, 4, 8, 16, 127>>) @@
    ("O" :> <<62, 65, 65, 65, 62>>) @@ ("P" :> <<127, 9, 9, 9, 6>>) @@
    ("R" :> <<127, 9, 25, 41, 70>>) @@ ("T" :> <<1, 1, 127, 1, 1>>) @@
    ("W" :> <<127, 32, 24, 32, 127>>) @@ ("Y" :> <<7, 8, 112, 8, 7>>)

\* setup_5x7_font: the literal plus the lower-case copy of every letter
font_5x7 ==
    font_5x7_literal @@
    [c \in { lower(u) : u \in { k \in DOMAIN font_5x7_literal : isalpha(k) } }
        |-> font_5x7_literal[upper(c)]]

\* column_data & (1 << row)
bit_set(column_data, row) == (column_data \div (2 ^ row)) % 2 = 1

draw_5x7_char_unknown_as_zero(img, x, y, char, rgb) ==
    LET ch == IF char \notin DOMAIN font_5x7 THEN "0" ELSE char
        char_data == font_5x7[ch]
        pts == { <<x + col, y + row>> : col \in 0 .. 4, row \in 0 .. 6 }
        lit == { q \in pts : bit_set(char_data[q[1] - x + 1], q[2] - y) }
    IN [img |-> Paint(img, lit, rgb), width |-> 6]

\* draw_5x7_char (background is never passed by update_display)
draw_5x7_char(img, x, y, char, rgb) ==
    LET ch == IF char \notin DOMAIN font_5x7 THEN " " ELSE char
        char_data == font_5x7[ch]
        pts == { <<x + col, y + row>> : col \in 0 .. 4, row \in 0 .. 6 }
        lit == { q \in pts : bit_set(char_data[q[1] - x + 1], q[2] - y) }
    IN [img |-> Paint(img, lit, rgb), width |-> 6]

cell_fits_if_it_starts_inside(cursor_x) == cursor_x < image_width

\* the negation of "if cursor_x + 5 > self.image.width: break"
cell_fits(cursor_x) == ~(cursor_x + 5 > image_width)

\* the for loop of draw_5x7_text from character i on
RECURSIVE draw_5x7_text_from(_, _, _, _, _, _)
draw_5x7_text_from(img, cursor_x, y, text, i, rgb) ==
    IF i > Len(text) \/ ~cell_fits(cursor_x)
    THEN [img |-> img, cursor_x |-> cursor_x]
    ELSE LET d == draw_5x7_char(img, cursor_x, y, text[i], rgb)
         IN draw_5x7_text_from(d.img, cursor_x + d.width, y, text, i + 1, rgb)

\* draw_5x7_text: the image and the total width it returns
draw_5x7_text(img, x, y, text, rgb) ==
    LET r == draw_5x7_text_from(img, x, y, text, 1, rgb)
    IN [img |-> r.img, width |-> r.cursor_x - x]

draw_circle_off_centre(img, x, y, radius, rgb) ==
    Paint(img,
          { q \in RectPoints(x - radius, y - radius + 1, x + radius,
                              y + radius + 1) :
              (q[1] - x) * (q[1] - x) + (q[2] - y - 1) * (q[2] - y - 1)
                  <= radius * radius + 1 },
          rgb)

\* draw_circle: ImageDraw.ellipse on the box (x-r, y-r)..(x+r, y+r), filled
\* and outlined.  For radius 3 the library fills rows of 3, 5, 7, 7, 7, 5, 3
\* pixels.
draw_circle(img, x, y, radius, rgb) ==
    Paint(img,
          { q \in RectPoints(x - radius, y - radius, x + radius, y + radius) :
              (q[1] - x) * (q[1] - x) + (q[2] - y) * (q[2] - y)
                  <= radius * radius + 1 },
          rgb)

\* body of "for line_number, line_data in station_data["lines"].items()" from
\* the k-th item on; lines is the sequence of the items' values in mapping
\* order.  exc is the exception that leaves the loop.
RECURSIVE draw_lines(_, _, _, _)
draw_lines(img, lines, k, y_pos) ==
    IF k > Len(lines) THEN [exc |-> "none", img |-> img]
    ELSE LET line_data == lines[k] IN
      IF "status" \notin DOMAIN line_data THEN [exc |-> "KeyError", img |-> img]
      ELSE IF "name" \notin DOMAIN line_data THEN [exc |-> "KeyError", img |-> img]
      ELSE IF Len(chars(line_data.name)) = 0 THEN [exc |-> "IndexError", img |-> img]
      ELSE LET has_alert == line_data.status = "alert"
               first_letter == upper(chars(line_data.name)[1])
               circle_color == IF first_letter = "G" THEN colors.green_line
                               ELSE IF first_letter = "O" THEN colors.orange_line
                               ELSE colors.white
               img1 == draw_circle(img, 6, y_pos + 4, 3, circle_color)
           IN IF "current_frequency" \notin DOMAIN line_data
              THEN [exc |-> "KeyError", img |-> img1]
              ELSE LET freq == replace(chars(line_data.current_frequency),
                                       chars("minutes"), chars("min"))
                       freq_text == IF has_alert THEN <<" ">> \o freq \o <<"!">>
                                    ELSE <<" ">> \o freq
                       text_color == IF has_alert THEN colors.alert
                                     ELSE colors.white
                       img2 == draw_5x7_text(img1, 10, y_pos, freq_text,
                                             text_color).img
                   IN draw_lines(img2, lines, k + 1, y_pos + 10)

\* update_display from "the buffer is cleared" up to the restore of the
\* drawing surfaces: the new image, or the exception raised on the way
draw_status(station_data) ==
    IF "current_time_period" \notin DOMAIN station_data
    THEN [exc |-> "KeyError", img |-> {}]
    ELSE LET period_color == IF station_data.current_time_period = "weekend"
                             THEN colors.weekend ELSE colors.white
             period_text == upper_text(chars(station_data.current_time_period))
             img1 == draw_5x7_text({}, 2, 2, period_text, period_color).img
         IN IF "lines" \notin DOMAIN station_data
            THEN [exc |-> "KeyError", img |-> img1]
            ELSE draw_lines(img1, station_data.lines, 1, 12)

\* The hardware: the first hw_fail calls of the driver (SetImage, Clear) made
\* during one update raise, the later ones succeed.  A hardware state hw is
\* [calls, frame, pushed]: the calls made so far, the frame on the matrix and
\* the kinds of the calls that succeeded.
hw_call(hw, hw_fail, kind, img) ==
    IF hw.calls + 1 <= hw_fail
    THEN [raised |-> TRUE, hw |-> [hw EXCEPT !.calls = @ + 1]]
    ELSE [raised |-> FALSE,
          hw |-> [calls |-> hw.calls + 1, frame |-> img,
                  pushed |-> Append(hw.pushed, kind)]]

\* what draw_text leaves of "ERR"/"ERROR" in the image: the rendering is the
\* font library's; a block at the text origin stands for it
error_text_points == RectPoints(20, 12, 37, 18)

\* the two rectangles of the fallback of show_error
error_rect_image == Paint({}, RectPoints(10, 10, 54, 22), <<255, 0, 0>>)

show_error_clear_only(hw, hw_fail) == hw_call(hw, hw_fail, "Clear", {}).hw

\* show_error: never raises
show_error(hw, hw_fail) ==
    LET c1 == hw_call(hw, hw_fail, "blank", {})
        c2 == hw_call(c1.hw, hw_fail, "error_text",
                      Paint({}, error_text_points, colors.alert))
        after_try == IF c1.raised THEN c1 ELSE c2
        c3 == hw_call(after_try.hw, hw_fail, "error_rect", error_rect_image)
        c4 == hw_call(c3.hw, hw_fail, "Clear", {})
    IN IF ~after_try.raised THEN after_try.hw
       ELSE IF ~c3.raised THEN c3.hw
       ELSE c4.hw

\* update_display without its try/except: an exception leaves the method
update_display_no_except(station_data, hw_fail, frame0) ==
    LET hw0 == [calls |-> 0, frame |-> frame0, pushed |-> <<>>]
        d == draw_status(station_data)
        c == hw_call(hw0, hw_fail, "status", d.img)
    IN IF d.exc # "none" THEN [exc |-> d.exc, hw |-> hw0]
       ELSE IF c.raised THEN [exc |-> "HardwareError", hw |-> c.hw]
       ELSE [exc |-> "none", hw |-> c.hw]

\* update_display: exc is the exception that reaches the caller
update_display(station_data, hw_fail, frame0) ==
    LET hw0 == [calls |-> 0, frame |-> frame0, pushed |-> <<>>]
        d == draw_status(station_data)
        c == hw_call(hw0, hw_fail, "status", d.img)
    IN IF d.exc # "none" THEN [exc |-> "none", hw |-> show_error(hw0, hw_fail)]
       ELSE IF c.raised THEN [exc |-> "none", hw |-> show_error(c.hw, hw_fail)]
       ELSE [exc |-> "none", hw |-> c.hw]

(***************************************************************************)
(* SpecHours: is_metro_operating applied to one clock reading              *)
(***************************************************************************)

HoursIdle ==
    /\ h_pc = "idle"
    /\ h_dow = 0
    /\ h_now = 0
    /\ h_operating = FALSE
    /\ h_period = ""

\* the value of d_line and d_station_data before any line was read
NoStatus == [station_name |-> ""]

DisplayIdle ==
    /\ d_pc = "idle"
    /\ d_hw_ok = TRUE
    /\ d_stdin = <<>>
    /\ d_eof = FALSE
    /\ d_written = 0
    /\ d_line = [text |-> [t |-> "none"], of |-> NoStatus]
    /\ d_station_data = NoStatus
    /\ d_shown = "none"
    /\ d_delay = 0
    /\ d_exit = "none"
    /\ d_status = "none"
    /\ d_reads = 0
    /\ d_errors = 0
    /\ d_spawns = 0
    /\ d_init_failed = FALSE

GlyphIdle ==
    /\ g_pc = "idle"
    /\ g_x = 0
    /\ g_y = 0
    /\ g_text = <<>>
    /\ g_frame = {}
    /\ g_width = 0

PipeIdle ==
    /\ w_pc = "idle"
    /\ w_producer = ""
    /\ w_now = 0
    /\ w_emit_at = 0
    /\ w_read_at = 0
    /\ w_pipe = <<>>
    /\ w_emitted = 0
    /\ w_rendered = <<>>
    /\ w_pair = 0
    /\ w_fetcher_alive = FALSE
    /\ w_renderer_alive = FALSE

FetcherIdle ==
    /\ f_pc = "idle"
    /\ f_dow = 0
    /\ f_now = 0
    /\ f_api = [kind |-> "ok", messages |-> <<>>]
    /\ f_pipe_ok = TRUE
    /\ f_called_api = FALSE
    /\ f_out = <<>>
    /\ f_delay = 0
    /\ f_alive = TRUE
    /\ f_exc = "none"
    /\ f_cycles = 0

RendererIdle ==
    /\ r_pc = "idle"
    /\ r_data = [current_time_period |-> "closed", lines |-> <<>>]
    /\ r_hw_fail = 0
    /\ r_frame = {}
    /\ r_pushed = <<>>
    /\ r_exc = "none"

\* instances of run_display.py; instance i runs as process i
NumInstances == 2

Instances == 1 .. NumInstances

\* contents of /tmp/metro_runner.lock: no file, a file int() rejects, or a
\* file holding a PID (0 stands for the PID of a process that is gone)
NoLock == [exists |-> FALSE, valid |-> FALSE, pid |-> 0]

GarbageLock == [exists |-> TRUE, valid |-> FALSE, pid |-> 0]

LockOf(pid) == [exists |-> TRUE, valid |-> TRUE, pid |-> pid]

LockIdle ==
    /\ lock_file = NoLock
    /\ l_pc = [i \in Instances |-> "idle"]
    /\ l_pid = [i \in Instances |-> 0]

\* child processes the supervisor can spawn in one run
MaxSpawns == 4

Pids == 1 .. MaxSpawns

\* MetroDisplayRunner.__init__: no children, running
SupervisorIdle ==
    /\ running = TRUE
    /\ metro_process = 0
    /\ display_process = 0
    /\ s_pc = "idle"
    /\ s_ret = "none"
    /\ s_hpc = "none"
    /\ s_signals = 0
    /\ s_exc = FALSE
    /\ s_pairs = 0
    /\ next_pid = 1
    /\ p_kind = [q \in Pids |-> "none"]
    /\ p_state = [q \in Pids |-> "unborn"]
    /\ p_err = [q \in Pids |-> 0]
    /\ p_stdout = [q \in Pids |-> 0]

InitHours ==
    /\ h_dow \in DaysOfWeek
    /\ h_now \in HourTimes
    /\ h_pc = "call"
    /\ h_operating = FALSE
    /\ h_period = ""
    /\ FetcherIdle
    /\ RendererIdle
    /\ LockIdle
    /\ SupervisorIdle
    /\ PipeIdle
    /\ GlyphIdle
    /\ DisplayIdle

EvalOperating ==
    /\ h_pc = "call"
    /\ h_pc' = "returned"
    /\ h_operating' = is_metro_operating(h_dow, h_now)
    /\ UNCHANGED <<h_dow, h_now, h_period>>
    /\ UNCHANGED <<fetcherVars, rendererVars, lockVars, supervisorVars,
                   pipeVars, glyphVars,
                   displayVars>>

\* get_current_time_period() on the same clock reading
EvalPeriod ==
    /\ h_pc = "returned"
    /\ h_pc' = "period_returned"
    /\ h_period' = get_current_time_period(h_dow, h_now)
    /\ UNCHANGED <<h_dow, h_now, h_operating>>
    /\ UNCHANGED <<fetcherVars, rendererVars, lockVars, supervisorVars,
                   pipeVars, glyphVars,
                   displayVars>>

NextHours ==
    \/ EvalOperating
    \/ EvalPeriod

SpecHours == InitHours /\ [][NextHours]_vars

\* C4: is_metro_operating is true at 05:30:00 and false at 05:29:59 on every
\* day of the week (weekday and weekend), and true for every time from
\* midnight up to and including the closing time of that day type.
C4_OpeningBoundaryAndPostMidnight ==
    h_pc = "returned" =>
        /\ (h_now = time(5, 30) => h_operating = TRUE)
        /\ (h_now = time(5, 30) - 1 => h_operating = FALSE)
        /\ (current_weekday(h_dow) /\ h_now <= published_close_weekday
                => h_operating = TRUE)
        /\ (~current_weekday(h_dow) /\ h_now <= published_close_weekend
                => h_operating = TRUE)

C4_Witness ==
    /\ h_pc = "returned"
    /\ h_operating = TRUE
    /\ h_now = time(5, 30)
    /\ ~current_weekday(h_dow)

\* C5: is_metro_operating closes at the published closing times: on a weekday
\* true at 00:30 and false from 00:31 until 05:30; on a weekend day true at
\* 01:00 and false from 01:01 until 05:30.
C5_ClosesAtPublishedTimes ==
    h_pc = "returned" =>
        /\ (current_weekday(h_dow) /\ h_now = published_close_weekday
                => h_operating = TRUE)
        /\ (current_weekday(h_dow) /\ h_now >= time(0, 31)
                /\ h_now < published_open => h_operating = FALSE)
        /\ (~current_weekday(h_dow) /\ h_now = published_close_weekend
                => h_operating = TRUE)
        /\ (~current_weekday(h_dow) /\ h_now >= time(1, 1)
                /\ h_now < published_open => h_operating = FALSE)

\* the period names of the status object: the keys of TIME_PERIODS and of
\* BERRI_UQAM["frequencies"], and "weekend"
DocumentedPeriods ==
    {"morning_peak", "afternoon_peak", "off_peak", "late_evening", "weekend"}

\* the bucket documented for an operating time
documented_period(dow, now) ==
    IF ~current_weekday(dow) THEN "weekend"
    ELSE IF now >= time(6, 30) /\ now < time(9, 30) THEN "morning_peak"
    ELSE IF now >= time(15, 30) /\ now < time(18, 30) THEN "afternoon_peak"
    ELSE IF now >= time(21, 0) \/ now < weekday_start THEN "late_evening"
    ELSE "off_peak"

\* C11: get_current_time_period classifies every operating time into the
\* documented buckets (weekend; on a weekday morning_peak 06:30-09:30,
\* afternoon_peak 15:30-18:30, late_evening from 21:00 until closing, the
\* operating times after midnight included, off_peak otherwise), and its
\* value is always one of the five documented names.
C11_PeriodIsDocumentedBucket ==
    (h_pc = "period_returned" /\ h_operating) =>
        /\ h_period \in DocumentedPeriods
        /\ h_period = documented_period(h_dow, h_now)

(***************************************************************************)
(* SpecFetcher: the while loop of metro.py main.  The clock reading of the *)
(* first cycle, the API outcome and the state of the stdout pipe are drawn *)
(* in the initial state; the clock then advances by each sleep.            *)
(***************************************************************************)

MaxCycles == 2

\* Friday and Saturday: both sides of weekday() < 5
FetcherDays == {4, 5}

FetcherTimes ==
    {time(0, 30), time(1, 0), time(1, 1), time(1, 30), time(1, 31),
     time(5, 30) - 1, time(5, 30), time(6, 30), time(9, 30), time(15, 30),
     time(18, 30), time(21, 0), DaySeconds - 1}

InitFetcher ==
    /\ HoursIdle
    /\ PipeIdle
    /\ GlyphIdle
    /\ DisplayIdle
    /\ RendererIdle
    /\ LockIdle
    /\ SupervisorIdle
    /\ f_pc = "cycle"
    /\ f_dow \in FetcherDays
    /\ f_now \in FetcherTimes
    /\ f_api \in ApiOutcomes
    /\ f_pipe_ok \in BOOLEAN
    /\ f_out = <<>>
    /\ f_delay = 0
    /\ f_alive = TRUE
    /\ f_exc = "none"
    /\ f_called_api = FALSE
    /\ f_cycles = 0

\* one iteration of "while True" up to the call of time.sleep
FetcherCycle ==
    /\ f_pc = "cycle"
    /\ f_cycles < MaxCycles
    /\ \E r \in {main_cycle(f_dow, f_now, f_api, f_pipe_ok)} :
         /\ f_out' = r.out
         /\ f_delay' = r.delay
         /\ f_exc' = r.exc
         /\ f_alive' = r.alive
         /\ f_called_api' = r.called_api
         /\ f_pc' = IF r.alive THEN "sleep" ELSE "exited"
    /\ f_cycles' = f_cycles + 1
    /\ UNCHANGED <<f_dow, f_now, f_api, f_pipe_ok>>
    /\ UNCHANGED <<hoursVars, rendererVars, lockVars, supervisorVars,
                   pipeVars, glyphVars,
                   displayVars>>

\* time.sleep returns: the clock has advanced by the delay
FetcherWake ==
    /\ f_pc = "sleep"
    /\ f_pc' = "cycle"
    /\ f_now' = (f_now + f_delay) % DaySeconds
    /\ f_dow' = IF f_now + f_delay >= DaySeconds THEN (f_dow + 1) % 7 ELSE f_dow
    /\ UNCHANGED <<f_api, f_pipe_ok, f_out, f_delay, f_alive, f_exc,
                   f_called_api, f_cycles>>
    /\ UNCHANGED <<hoursVars, rendererVars, lockVars, supervisorVars,
                   pipeVars, glyphVars,
                   displayVars>>

NextFetcher == FetcherCycle \/ FetcherWake

SpecFetcher == InitFetcher /\ [][NextFetcher]_vars

\* a message whose texts cannot be read and that names a line of the station
UnreadableMessage(m) ==
    /\ m.texts = "bad"
    /\ \E i \in 1 .. Len(m.routes) : m.routes[i] \in {"1", "2"}

\* the request failed, or the response could not be parsed
ApiOrParseFailed(api) ==
    \/ api.kind \in {"timeout", "http_error", "bad_json"}
    \/ \E k \in 1 .. Len(api.messages) : UnreadableMessage(api.messages[k])

\* C9: in a cycle in which the API request or the parsing of its response
\* fails the Fetcher writes nothing to stdout, stays alive and goes to sleep
\* for a fixed delay before the next cycle; no exception caught in a cycle
\* ends the main loop.
C9_FailureEmitsNothingAndLoopGoesOn ==
    /\ f_alive
    /\ f_pc \in {"idle", "cycle", "sleep"}
    /\ (f_pc = "sleep" /\ f_called_api /\ ApiOrParseFailed(f_api)
            => f_out = <<>> /\ f_delay \in {5, 30})
    /\ (f_pc = "sleep" /\ f_exc # "none" => f_out = <<>> /\ f_delay = 5)

\* the cycle after a failed one has started
C9_Witness ==
    /\ f_pc = "cycle"
    /\ f_cycles = 1
    /\ f_called_api
    /\ f_api.kind = "bad_json"
    /\ f_out = <<>>

\* C10: in every cycle in which the service is operating and the API request
\* succeeds (with a readable response and a working stdout), the Fetcher
\* emits exactly one StationStatus line, whatever the time period, and each
\* line's current_frequency is the entry of its frequency table for the
\* emitted period.
C10_OneLinePerOperatingCycle ==
    (/\ f_pc = "sleep"
     /\ f_called_api
     /\ f_api.kind = "ok"
     /\ \A k \in 1 .. Len(f_api.messages) :
            /\ f_api.messages[k].texts # "bad"
            /\ f_api.messages[k].start # "str"
     /\ f_pipe_ok)
    => /\ Len(f_out) = 1
       /\ \A n \in DOMAIN f_out[1].lines :
            f_out[1].lines[n].current_frequency =
                BERRI_UQAM_frequencies[n][f_out[1].current_time_period]

\* C12: every StationStatus line the Fetcher emits carries the is_operating
\* field, true in a line emitted while the service is operating and false in
\* a line emitted while it is closed.
C12_EveryLineCarriesIsOperating ==
    f_pc = "sleep" =>
        \A k \in 1 .. Len(f_out) :
            /\ "is_operating" \in DOMAIN f_out[k]
            /\ f_out[k].is_operating = is_metro_operating(f_dow, f_now)

\* a closed status line: period "closed", is_operating false, no lines
IsClosedLine(d) ==
    /\ DOMAIN d = {"station_name", "operating_hours", "current_time_period",
                   "lines", "is_operating"}
    /\ d.current_time_period = "closed"
    /\ d.is_operating = FALSE
    /\ DOMAIN d.lines = {}

\* C13 as stated: in every cycle in which is_metro_operating is false the
\* Fetcher emits exactly one closed status line and does not call the API.
C13_ClosedCycleEmitsOneClosedLine ==
    (f_pc = "sleep" /\ ~is_metro_operating(f_dow, f_now)) =>
        /\ ~f_called_api
        /\ Len(f_out) = 1
        /\ IsClosedLine(f_out[1])

\* C13 amended: in every cycle in which is_metro_operating is false the
\* Fetcher does not call the API; when the write to stdout succeeds it emits
\* exactly one closed status line and sleeps 300 s; when the write raises
\* (the reading end of the pipe is gone) it emits nothing and retries after
\* 5 s.
C13_ClosedCycleEmitsClosedLineIfWritable ==
    (f_pc = "sleep" /\ ~is_metro_operating(f_dow, f_now)) =>
        /\ ~f_called_api
        /\ (f_pipe_ok =>
                /\ Len(f_out) = 1
                /\ IsClosedLine(f_out[1])
                /\ f_delay = 300)
        /\ (~f_pipe_ok =>
                /\ f_out = <<>>
                /\ f_exc = "BrokenPipeError"
                /\ f_delay = 5)

\* a closed cycle has written its line
C13_Witness ==
    /\ f_pc = "sleep"
    /\ ~is_metro_operating(f_dow, f_now)
    /\ f_pipe_ok
    /\ Len(f_out) = 1
    /\ f_out[1].current_time_period = "closed"

\* the API response has a message with an informed entity for route n
RouteMentioned(api, n) ==
    \E k \in 1 .. Len(api.messages) :
        \E i \in 1 .. Len(api.messages[k].routes) :
            api.messages[k].routes[i] = n

AlertFields ==
    {"alert_description", "alert_header", "alert_start", "alert_end"}

\* C19: for every line id of the station the emitted line status is "alert"
\* if and only if the API response has a message with an informed entity
\* whose route_short_name is that line id; messages about any other route
\* change nothing, and a line without a matching message has status "normal"
\* and no alert_* fields.
C19_AlertIffRouteMentioned ==
    (f_pc = "sleep" /\ f_called_api /\ Len(f_out) = 1) =>
        /\ DOMAIN f_out[1].lines = DOMAIN BERRI_UQAM_lines
        /\ \A n \in DOMAIN BERRI_UQAM_lines :
              LET line_data == f_out[1].lines[n] IN
              IF RouteMentioned(f_api, n)
              THEN /\ line_data.status = "alert"
                   /\ AlertFields \subseteq DOMAIN line_data
              ELSE /\ line_data.status = "normal"
                   /\ AlertFields \cap DOMAIN line_data = {}

\* a status was emitted with line 1 in alert and line 2 normal, from a
\* response that also has a message about another route
C19_Witness ==
    /\ f_pc = "sleep"
    /\ f_called_api
    /\ Len(f_out) = 1
    /\ RouteMentioned(f_api, "1")
    /\ RouteMentioned(f_api, "4")
    /\ ~RouteMentioned(f_api, "2")
    /\ f_out[1].lines["1"].status = "alert"
    /\ f_out[1].lines["2"].status = "normal"

(***************************************************************************)
(* SpecRenderer: one call of MetroDisplay.update_display on a decoded      *)
(* status, with a hardware whose first r_hw_fail driver calls raise.       *)
(***************************************************************************)

MaxHwFail == 4

PeriodValues ==
    {"morning_peak", "afternoon_peak", "off_peak", "late_evening", "weekend",
     "closed"}

FrequencyValues == {"2-4 minutes", "3-5 minutes", "4-8 minutes", "8-10 minutes"}

LineStatus(name, freq, status) ==
    [name |-> name, current_frequency |-> freq, status |-> status]

\* one-line mappings: every name, frequency and status, and a line with one
\* of the fields missing
OneLine ==
    { LineStatus(n, f, st) : n \in {"Green Line", "Orange Line", "Blue Line",
                                    "orange line", ""},
                             f \in FrequencyValues, st \in {"normal", "alert"} }
    \cup {[name |-> "Green Line", current_frequency |-> "2-4 minutes"],
          [name |-> "Green Line", status |-> "alert"],
          [current_frequency |-> "2-4 minutes", status |-> "normal"]}

\* the two lines of the station
TwoLines ==
    { <<LineStatus("Green Line", f1, s1), LineStatus("Orange Line", f2, s2)>> :
        f1 \in FrequencyValues, s1 \in {"normal", "alert"},
        f2 \in FrequencyValues, s2 \in {"normal", "alert"} }

LineLists == {<<>>} \cup { <<l>> : l \in OneLine } \cup TwoLines

StationInputs ==
    { [current_time_period |-> p, lines |-> ls] : p \in PeriodValues, ls \in LineLists }
    \cup { [current_time_period |-> p, lines |-> ls, is_operating |-> b] :
             p \in PeriodValues, ls \in LineLists, b \in BOOLEAN }
    \cup { [lines |-> ls] : ls \in TwoLines }
    \cup { [current_time_period |-> p] : p \in PeriodValues }

\* the statuses tried on a failing hardware: how show_error proceeds depends
\* on the status only through whether drawing it raised
HwProbeInputs ==
    {[current_time_period |-> "closed", lines |-> <<>>, is_operating |-> FALSE],
     [current_time_period |-> "off_peak"],
     [current_time_period |-> "weekend",
      lines |-> <<LineStatus("Green Line", "4-8 minutes", "alert"),
                  LineStatus("Orange Line", "4-8 minutes", "normal")>>]}

InitRenderer ==
    /\ HoursIdle
    /\ PipeIdle
    /\ GlyphIdle
    /\ DisplayIdle
    /\ FetcherIdle
    /\ LockIdle
    /\ SupervisorIdle
    /\ r_pc = "call"
    /\ \/ r_data \in StationInputs /\ r_hw_fail = 0
       \/ r_data \in HwProbeInputs /\ r_hw_fail \in 1 .. MaxHwFail
    /\ r_frame = {}
    /\ r_pushed = <<>>
    /\ r_exc = "none"

\* display.update_display(station_data) as main calls it
UpdateDisplay ==
    /\ r_pc = "call"
    /\ \E r \in {update_display(r_data, r_hw_fail, r_frame)} :
         /\ r_exc' = r.exc
         /\ r_frame' = r.hw.frame
         /\ r_pushed' = r.hw.pushed
         /\ r_pc' = IF r.exc = "none" THEN "returned" ELSE "raised"
    /\ UNCHANGED <<r_data, r_hw_fail>>
    /\ UNCHANGED <<hoursVars, fetcherVars, lockVars, supervisorVars,
                   pipeVars, glyphVars,
                   displayVars>>

NextRenderer == UpdateDisplay

SpecRenderer == InitRenderer /\ [][NextRenderer]_vars

\* a status that has every field update_display reads
WellFormed(d) ==
    /\ "current_time_period" \in DOMAIN d
    /\ "lines" \in DOMAIN d
    /\ \A k \in 1 .. Len(d.lines) :
         /\ {"name", "current_frequency", "status"} \subseteq DOMAIN d.lines[k]
         /\ d.lines[k].name # ""

IsClosedStatus(d) ==
    \/ d.current_time_period = "closed"
    \/ ("is_operating" \in DOMAIN d /\ d.is_operating = FALSE)

\* C6: for every StationStatus with is_operating=false or
\* current_time_period="closed", the frame update_display pushes to the
\* hardware is blank: no pixel of the 64x32 frame is lit.
C6_ClosedFrameIsBlank ==
    (/\ r_pc = "returned"
     /\ r_hw_fail = 0
     /\ WellFormed(r_data)
     /\ IsClosedStatus(r_data))
    => r_frame = {}

\* the points the glyph of char has at (x, y), taken from the font table
GlyphPoints(char, x, y) ==
    { <<x + col, y + row>> : col \in 0 .. 4, row \in 0 .. 6 } \cap
    { q \in (x .. x + 4) \X (y .. y + 6) :
        (font_5x7_literal[char][q[1] - x + 1] \div (2 ^ (q[2] - y))) % 2 = 1 }

\* the number of characters of the frequency text before the "!"
FreqTextLen(freq) ==
    CASE freq = "8-10 minutes" -> 9
      [] OTHER -> 8

\* C7: for every line whose status is "alert" and every frequency string of
\* the station's tables, the pushed frame has the "!" glyph directly after
\* the line's frequency text, and the line's text is in the alert colour.
C7_AlertHasBangAndColour ==
    (/\ r_pc = "returned"
     /\ r_hw_fail = 0
     /\ WellFormed(r_data))
    => \A k \in 1 .. Len(r_data.lines) :
         r_data.lines[k].status = "alert" =>
           LET y == 12 + 10 * (k - 1)
               x == 10 + 6 * FreqTextLen(r_data.lines[k].current_frequency)
           IN /\ \A q \in GlyphPoints("!", x, y) :
                    <<q[1], q[2], colors.alert>> \in r_frame
              /\ \A p \in r_frame :
                    (p[1] >= 10 /\ p[2] \in y .. y + 6) => p[3] = colors.alert

\* C8 as stated: update_display returns normally for every input, having
\* pushed either the status frame or an error frame.
C8_ReturnsAfterPushingAFrame ==
    /\ r_exc = "none"
    /\ r_pc # "raised"
    /\ (r_pc = "returned" =>
           /\ r_pushed # <<>>
           /\ r_pushed[Len(r_pushed)] \in {"status", "error_text", "error_rect"})

\* C8 amended: update_display never propagates an exception: for every input
\* (also one with missing fields or an empty line name) and every behaviour
\* of the hardware it returns normally; when no hardware call raises it has
\* pushed the status frame (well-formed input) or the error frame (any other
\* input); when hardware calls raise, the last thing it did to the hardware,
\* if anything, is an error frame or a clear.
C8_NeverPropagates ==
    /\ r_exc = "none"
    /\ r_pc # "raised"
    /\ (r_pc = "returned" /\ r_hw_fail = 0 =>
           /\ r_pushed # <<>>
           /\ r_pushed[Len(r_pushed)] =
                 IF WellFormed(r_data) THEN "status" ELSE "error_text")
    /\ (r_pc = "returned" /\ r_hw_fail > 0 =>
           \/ r_pushed = <<>>
           \/ r_pushed[Len(r_pushed)] \in
                 {"status", "error_text", "error_rect", "Clear"})

\* a status with an empty line name has been answered with the error frame
C8_Witness ==
    /\ r_pc = "returned"
    /\ r_hw_fail = 0
    /\ "lines" \in DOMAIN r_data
    /\ Len(r_data.lines) = 1
    /\ "name" \in DOMAIN r_data.lines[1]
    /\ r_data.lines[1].name = ""
    /\ r_pushed = <<"blank", "error_text">>

\* the driver calls that still raise when show_error starts: update_display
\* has made one call (SetImage of the status) unless drawing raised first
FailingCallsLeft ==
    IF WellFormed(r_data)
    THEN (IF r_hw_fail >= 1 THEN r_hw_fail - 1 ELSE 0)
    ELSE r_hw_fail

\* C21: rendering failures degrade in a fixed order and never escape: when
\* update_display fails it calls show_error, which first tries the textual
\* error frame, only if that raises the red rectangle, only if that raises a
\* hardware clear, and returns normally even if all three attempts fail.
C21_ErrorFallbackOrder ==
    /\ r_exc = "none"
    /\ r_pc # "raised"
    /\ (r_pc = "returned" =>
           IF WellFormed(r_data) /\ r_hw_fail = 0
           THEN r_pushed = <<"status">>
           ELSE r_pushed =
                  CASE FailingCallsLeft = 0 -> <<"blank", "error_text">>
                    [] FailingCallsLeft = 1 -> <<"error_rect">>
                    [] FailingCallsLeft = 2 -> <<"Clear">>
                    [] OTHER -> <<>>)

\* the textual error frame raised and the red rectangle was shown
C21_Witness ==
    /\ r_pc = "returned"
    /\ WellFormed(r_data)
    /\ r_hw_fail = 2
    /\ r_pushed = <<"error_rect">>
    /\ r_frame = error_rect_image

\* the texts update_display draws for a frequency: " <freq> min" and the same
\* with "!"
FrequencyTexts ==
    UNION { {<<" ">> \o replace(chars(f), chars("minutes"), chars("min")),
             <<" ">> \o replace(chars(f), chars("minutes"), chars("min"))
                    \o <<"!">>} : f \in FrequencyValues }

\* the characters of a text
CharsOf(text) == { text[i] : i \in 1 .. Len(text) }

\* C26: the glyph table has a key for every character the Renderer is asked
\* to draw: every character of the upper-cased label of the status shown and
\* of every frequency text is a key of font_5x7, and every lower-case key has
\* the glyph of its upper-case letter.
C26_GlyphTableCoversDrawnText ==
    (/\ r_pc = "returned"
     /\ r_hw_fail = 0
     /\ WellFormed(r_data))
    => /\ CharsOf(upper_text(chars(r_data.current_time_period)))
              \subseteq DOMAIN font_5x7
       /\ \A t \in FrequencyTexts : CharsOf(t) \subseteq DOMAIN font_5x7
       /\ \A c \in DOMAIN font_5x7 : font_5x7[c] = font_5x7[upper(c)]

\* the lit points of the frame left of column x_max in the rows y0 .. y1
BandPoints(frame, x_max, y0, y1) ==
    { <<p[1], p[2]>> : p \in { t \in frame : t[1] < x_max /\ t[2] \in y0 .. y1 } }

\* C25: update_display lays out a status at fixed coordinates: the glyphs of
\* the period label start at (2, 2), six columns apart; the k-th line of the
\* mapping (k = 1, 2, ...) has its circle centred at (6, 16 + 10 (k - 1)), in
\* green when the upper-cased first letter of its name is G, orange when it
\* is O, white otherwise, and its frequency text at (10, 12 + 10 (k - 1));
\* with at most two lines nothing is drawn below row 29.
C25_FixedLayout ==
    (/\ r_pc = "returned"
     /\ r_hw_fail = 0
     /\ WellFormed(r_data))
    => LET label == upper_text(chars(r_data.current_time_period))
           period_color == IF r_data.current_time_period = "weekend"
                           THEN colors.weekend ELSE colors.white
       IN /\ \A i \in 1 .. Len(label) :
                (label[i] \in DOMAIN font_5x7_literal
                 /\ 2 + 6 * (i - 1) + 5 <= image_width)
                => \A q \in GlyphPoints(label[i], 2 + 6 * (i - 1), 2) :
                       <<q[1], q[2], period_color>> \in r_frame
          /\ \A p \in r_frame :
                p[2] < 12 => (p[1] >= 2 /\ p[2] \in 2 .. 8 /\ p[3] = period_color)
          /\ \A k \in 1 .. Len(r_data.lines) :
                LET y == 12 + 10 * (k - 1)
                    cy == 16 + 10 * (k - 1)
                    first_letter == upper(chars(r_data.lines[k].name)[1])
                    circle_color == IF first_letter = "G" THEN <<0, 200, 0>>
                                    ELSE IF first_letter = "O" THEN <<255, 165, 0>>
                                    ELSE <<255, 255, 255>>
                    disc == BandPoints(r_frame, 10, y, y + 9)
                    freq == chars(r_data.lines[k].current_frequency)
                IN /\ {<<6, cy>>, <<3, cy>>, <<9, cy>>, <<6, cy - 3>>,
                        <<6, cy + 3>>} \subseteq disc
                   /\ \A q \in disc :
                         /\ <<12 - q[1], 2 * cy - q[2]>> \in disc
                         /\ q[1] \in 3 .. 9
                         /\ q[2] \in cy - 3 .. cy + 3
                   /\ \A p \in r_frame :
                         (p[1] < 10 /\ p[2] \in y .. y + 9) => p[3] = circle_color
                   /\ \A q \in GlyphPoints(freq[1], 16, y) :
                         \E p \in r_frame : p[1] = q[1] /\ p[2] = q[2]
                   /\ \A p \in r_frame :
                         (p[1] >= 10 /\ p[2] \in y .. y + 9)
                         => (p[1] >= 16 /\ p[2] <= y + 6)
          /\ (Len(r_data.lines) <= 2 => \A p \in r_frame : p[2] <= 29)

\* the station's two lines drawn, green above orange
C25_Witness ==
    /\ r_pc = "returned"
    /\ r_pushed = <<"status">>
    /\ Len(r_data.lines) = 2
    /\ <<6, 16, <<0, 200, 0>>>> \in r_frame
    /\ <<6, 26, <<255, 165, 0>>>> \in r_frame
    /\ <<6, 29, <<255, 165, 0>>>> \in r_frame

(***************************************************************************)
(* SpecLock: several instances of run_display.py main on one host.  Each   *)
(* system call on the lock file is one step.                               *)
(***************************************************************************)

\* a process is alive from its start until it has exited
ProcessAlive(pid) ==
    /\ pid \in Instances
    /\ l_pc[pid] \notin {"idle", "exited"}

InitLock ==
    /\ HoursIdle
    /\ PipeIdle
    /\ GlyphIdle
    /\ DisplayIdle
    /\ FetcherIdle
    /\ RendererIdle
    /\ SupervisorIdle
    /\ lock_file \in {NoLock, GarbageLock, LockOf(0)}
    /\ l_pc = [i \in Instances |-> "idle"]
    /\ l_pid = [i \in Instances |-> 0]

\* the instance is started: main calls check_lock
StartInstance(i) ==
    /\ l_pc[i] = "idle"
    /\ l_pc' = [l_pc EXCEPT ![i] = "exists"]
    /\ UNCHANGED <<lock_file, l_pid>>
    /\ UNCHANGED notLock

\* check_lock: os.path.exists(LOCK_FILE)
CheckExists(i) ==
    /\ l_pc[i] = "exists"
    /\ l_pc' = [l_pc EXCEPT ![i] = IF ~lock_file.exists THEN "create"
                                   ELSE "read"]
    /\ UNCHANGED <<lock_file, l_pid>>
    /\ UNCHANGED notLock

\* check_lock: open, read and int(): OSError when the file is gone by now,
\* ValueError on a content that is no number
CheckRead(i) ==
    /\ l_pc[i] = "read"
    /\ IF ~lock_file.exists \/ ~lock_file.valid
       THEN /\ l_pc' = [l_pc EXCEPT ![i] = "remove"]
            /\ UNCHANGED l_pid
       ELSE /\ l_pc' = [l_pc EXCEPT ![i] = "kill"]
            /\ l_pid' = [l_pid EXCEPT ![i] = lock_file.pid]
    /\ UNCHANGED lock_file
    /\ UNCHANGED notLock

\* check_lock: os.kill(pid, 0), then "return False" or the except clause
CheckKill(i) ==
    /\ l_pc[i] = "kill"
    /\ l_pc' = [l_pc EXCEPT ![i] = IF ProcessAlive(l_pid[i]) THEN "refused"
                                   ELSE "remove"]
    /\ UNCHANGED <<lock_file, l_pid>>
    /\ UNCHANGED notLock

\* check_lock: os.remove(LOCK_FILE), OSError ignored; returns True
CheckRemove(i) ==
    /\ l_pc[i] = "remove"
    /\ lock_file' = NoLock
    /\ l_pc' = [l_pc EXCEPT ![i] = "create"]
    /\ UNCHANGED l_pid
    /\ UNCHANGED notLock

\* main: sys.exit(1) after check_lock returned False
ExitRefused(i) ==
    /\ l_pc[i] = "refused"
    /\ l_pc' = [l_pc EXCEPT ![i] = "exited"]
    /\ UNCHANGED <<lock_file, l_pid>>
    /\ UNCHANGED notLock

\* create_lock writes the PID; main then constructs the runner and calls run
CreateLock(i) ==
    /\ l_pc[i] = "create"
    /\ lock_file' = LockOf(i)
    /\ l_pc' = [l_pc EXCEPT ![i] = "run"]
    /\ UNCHANGED l_pid
    /\ UNCHANGED notLock

\* run returns (shutdown signal or exception): remove_lock in the handler,
\* in the finally of run and in the finally of main, then the process ends
RunEnds(i) ==
    /\ l_pc[i] = "run"
    /\ lock_file' = NoLock
    /\ l_pc' = [l_pc EXCEPT ![i] = "exited"]
    /\ UNCHANGED l_pid
    /\ UNCHANGED notLock

NextLock ==
    \/ \E i \in Instances : StartInstance(i)
    \/ \E i \in Instances : CheckExists(i)
    \/ \E i \in Instances : CheckRead(i)
    \/ \E i \in Instances : CheckKill(i)
    \/ \E i \in Instances : CheckRemove(i)
    \/ \E i \in Instances : ExitRefused(i)
    \/ \E i \in Instances : CreateLock(i)
    \/ \E i \in Instances : RunEnds(i)

SpecLock == InitLock /\ [][NextLock]_vars

\* C3: mutual exclusion of supervisors: in every interleaving of instances
\* that each run check_lock, create_lock and run, at most one instance is
\* inside MetroDisplayRunner.run at any time.
C3_AtMostOneSupervisorRuns ==
    Cardinality({ i \in Instances : l_pc[i] = "run" }) <= 1

\* C29: lock-file ownership: from the moment an instance has created the
\* lock file until that instance exits, the lock file exists and holds that
\* instance's PID: no other instance removes or overwrites it.
C29_LockHeldByItsCreator ==
    \A i \in Instances : l_pc[i] = "run" => lock_file = LockOf(i)

(***************************************************************************)
(* SpecSupervisor: MetroDisplayRunner.run with its two children.           *)
(*                                                                         *)
(* s_pc is the position of run; s_hpc the position of signal_handler while *)
(* it interrupts run ("none" otherwise).  A child process is "unborn",     *)
(* "running", "terminating" (SIGTERM sent, not yet gone), "exited" or      *)
(* "killed"; p_err counts the lines waiting in its stderr pipe.  Children  *)
(* exit and write to stderr on their own; nothing obliges them to.         *)
(***************************************************************************)

MaxErrLines == 1

MaxSignals == 1

Dead(pid) == pid # 0 /\ p_state[pid] \in {"exited", "killed"}

Alive(pid) == pid # 0 /\ p_state[pid] \in {"running", "terminating"}

InitSupervisor ==
    /\ HoursIdle
    /\ PipeIdle
    /\ GlyphIdle
    /\ DisplayIdle
    /\ FetcherIdle
    /\ RendererIdle
    /\ lock_file = LockOf(1)
    /\ l_pc = [i \in Instances |-> "idle"]
    /\ l_pid = [i \in Instances |-> 0]
    /\ running = TRUE
    /\ metro_process = 0
    /\ display_process = 0
    /\ s_pc = "while_running"
    /\ s_ret = "none"
    /\ s_hpc = "none"
    /\ s_signals = 0
    /\ s_exc = FALSE
    /\ s_pairs = 0
    /\ next_pid = 1
    /\ p_kind = [q \in Pids |-> "none"]
    /\ p_state = [q \in Pids |-> "unborn"]
    /\ p_err = [q \in Pids |-> 0]
    /\ p_stdout = [q \in Pids |-> 0]

\* Popen.terminate(): SIGTERM to a process that has not exited
terminate(h) ==
    IF p_state[h] = "running" THEN [p_state EXCEPT ![h] = "terminating"]
    ELSE p_state

wait_without_kill(h) == p_state

\* Popen.wait(timeout=5), and Popen.kill() on TimeoutExpired
wait_or_kill(h) ==
    IF Dead(h) THEN p_state ELSE [p_state EXCEPT ![h] = "killed"]

CleanupPcs ==
    {"cl_metro_term", "cl_metro_wait", "cl_display_term", "cl_display_wait"}

cleanup_step_metro_only(pc, ret) ==
    CASE pc = "cl_metro_term" ->
            IF metro_process # 0
            THEN [pc |-> "cl_metro_wait", p_state |-> terminate(metro_process)]
            ELSE [pc |-> "cl_display_term", p_state |-> p_state]
      [] pc = "cl_metro_wait" ->
            [pc |-> "cl_display_term", p_state |-> wait_or_kill(metro_process)]
      [] pc = "cl_display_term" -> [pc |-> ret, p_state |-> p_state]
      [] pc = "cl_display_wait" -> [pc |-> ret, p_state |-> p_state]

\* one statement of cleanup at position pc; ret is where its caller goes on
cleanup_step(pc, ret) ==
    CASE pc = "cl_metro_term" ->
            IF metro_process # 0
            THEN [pc |-> "cl_metro_wait", p_state |-> terminate(metro_process)]
            ELSE [pc |-> "cl_display_term", p_state |-> p_state]
      [] pc = "cl_metro_wait" ->
            [pc |-> "cl_display_term", p_state |-> wait_or_kill(metro_process)]
      [] pc = "cl_display_term" ->
            IF display_process # 0
            THEN [pc |-> "cl_display_wait",
                  p_state |-> terminate(display_process)]
            ELSE [pc |-> ret, p_state |-> p_state]
      [] pc = "cl_display_wait" ->
            [pc |-> ret, p_state |-> wait_or_kill(display_process)]

\* "while self.running:" of the outer loop; leaving it enters the finally
LoopTest ==
    /\ s_hpc = "none"
    /\ s_pc = "while_running"
    /\ IF running
       THEN s_pc' = "spawn_display" /\ UNCHANGED s_ret
       ELSE s_pc' = "cl_metro_term" /\ s_ret' = "remove_lock"
    /\ UNCHANGED <<running, metro_process, display_process, s_hpc, s_signals,
                   s_exc, s_pairs, next_pid, p_kind, p_state, p_err,
                   lock_file>>
    /\ UNCHANGED p_stdout
    /\ UNCHANGED notSupervisor

\* the attribute is rebound: the previous Popen object is released and its
\* stderr pipe closed, the lines still in it are gone
drop_handle(h) == IF h = 0 THEN p_err ELSE [p_err EXCEPT ![h] = 0]

\* self.display_process = subprocess.Popen([..., "display.py"], ...)
SpawnDisplay ==
    /\ s_hpc = "none"
    /\ s_pc = "spawn_display"
    /\ next_pid <= MaxSpawns
    /\ display_process' = next_pid
    /\ p_kind' = [p_kind EXCEPT ![next_pid] = "display"]
    /\ p_state' = [p_state EXCEPT ![next_pid] = "running"]
    /\ next_pid' = next_pid + 1
    /\ s_pc' = "spawn_metro"
    /\ p_err' = drop_handle(display_process)
    /\ UNCHANGED <<running, metro_process, s_ret, s_hpc, s_signals, s_exc,
                   s_pairs, lock_file>>
    /\ UNCHANGED p_stdout
    /\ UNCHANGED notSupervisor

metro_stdout_unattached(display) == 0

\* stdout=self.display_process.stdin of the Popen of metro.py
metro_stdout(display) == display

\* self.metro_process = subprocess.Popen([..., "metro.py", "--json"], ...)
SpawnMetro ==
    /\ s_hpc = "none"
    /\ s_pc = "spawn_metro"
    /\ next_pid <= MaxSpawns
    /\ metro_process' = next_pid
    /\ p_kind' = [p_kind EXCEPT ![next_pid] = "metro"]
    /\ p_state' = [p_state EXCEPT ![next_pid] = "running"]
    /\ next_pid' = next_pid + 1
    /\ s_pairs' = s_pairs + 1
    /\ s_pc' = "monitor"
    /\ p_err' = drop_handle(metro_process)
    /\ UNCHANGED <<running, display_process, s_ret, s_hpc, s_signals, s_exc,
                   lock_file>>
    /\ p_stdout' = [p_stdout EXCEPT ![next_pid] = metro_stdout(display_process)]
    /\ UNCHANGED notSupervisor

\* Popen raises (OSError): "except Exception" of run, then the finally
SpawnFails ==
    /\ s_hpc = "none"
    /\ s_pc \in {"spawn_display", "spawn_metro"}
    /\ s_exc' = TRUE
    /\ s_pc' = "cl_metro_term"
    /\ s_ret' = "remove_lock"
    /\ UNCHANGED <<running, metro_process, display_process, s_hpc, s_signals,
                   s_pairs, next_pid, p_kind, p_state, p_err, lock_file>>
    /\ UNCHANGED p_stdout
    /\ UNCHANGED notSupervisor

\* "while self.running:" of the monitoring loop; leaving it calls cleanup
MonitorTest ==
    /\ s_hpc = "none"
    /\ s_pc = "monitor"
    /\ IF running
       THEN s_pc' = "poll_metro" /\ UNCHANGED s_ret
       ELSE s_pc' = "cl_metro_term" /\ s_ret' = "restart_wait"
    /\ UNCHANGED <<running, metro_process, display_process, s_hpc, s_signals,
                   s_exc, s_pairs, next_pid, p_kind, p_state, p_err,
                   lock_file>>
    /\ UNCHANGED p_stdout
    /\ UNCHANGED notSupervisor

\* if self.metro_process.poll() is not None: break
PollMetro ==
    /\ s_hpc = "none"
    /\ s_pc = "poll_metro"
    /\ IF Dead(metro_process)
       THEN s_pc' = "cl_metro_term" /\ s_ret' = "restart_wait"
       ELSE s_pc' = "poll_display" /\ UNCHANGED s_ret
    /\ UNCHANGED <<running, metro_process, display_process, s_hpc, s_signals,
                   s_exc, s_pairs, next_pid, p_kind, p_state, p_err,
                   lock_file>>
    /\ UNCHANGED p_stdout
    /\ UNCHANGED notSupervisor

\* if self.display_process.poll() is not None: break
PollDisplay ==
    /\ s_hpc = "none"
    /\ s_pc = "poll_display"
    /\ IF Dead(display_process)
       THEN s_pc' = "cl_metro_term" /\ s_ret' = "restart_wait"
       ELSE s_pc' = "read_metro_err" /\ UNCHANGED s_ret
    /\ UNCHANGED <<running, metro_process, display_process, s_hpc, s_signals,
                   s_exc, s_pairs, next_pid, p_kind, p_state, p_err,
                   lock_file>>
    /\ UNCHANGED p_stdout
    /\ UNCHANGED notSupervisor

\* stderr.readline() on the pipe of child h returns: a line is waiting, or the
\* child is gone and the pipe is at end-of-file
readline_returns(h) == p_err[h] > 0 \/ Dead(h)

\* metro_error = self.metro_process.stderr.readline()
ReadMetroErr ==
    /\ s_hpc = "none"
    /\ s_pc = "read_metro_err"
    /\ readline_returns(metro_process)
    /\ p_err' = [p_err EXCEPT ![metro_process] = IF @ > 0 THEN @ - 1 ELSE @]
    /\ s_pc' = "read_display_err"
    /\ UNCHANGED <<running, metro_process, display_process, s_ret, s_hpc,
                   s_signals, s_exc, s_pairs, next_pid, p_kind, p_state,
                   lock_file>>
    /\ UNCHANGED p_stdout
    /\ UNCHANGED notSupervisor

\* display_error = self.display_process.stderr.readline()
ReadDisplayErr ==
    /\ s_hpc = "none"
    /\ s_pc = "read_display_err"
    /\ readline_returns(display_process)
    /\ p_err' = [p_err EXCEPT ![display_process] = IF @ > 0 THEN @ - 1 ELSE @]
    /\ s_pc' = "sleep"
    /\ UNCHANGED <<running, metro_process, display_process, s_ret, s_hpc,
                   s_signals, s_exc, s_pairs, next_pid, p_kind, p_state,
                   lock_file>>
    /\ UNCHANGED p_stdout
    /\ UNCHANGED notSupervisor

\* time.sleep(1)
Sleep1 ==
    /\ s_hpc = "none"
    /\ s_pc = "sleep"
    /\ s_pc' = "monitor"
    /\ UNCHANGED <<running, metro_process, display_process, s_ret, s_hpc,
                   s_signals, s_exc, s_pairs, next_pid, p_kind, p_state,
                   p_err, lock_file>>
    /\ UNCHANGED p_stdout
    /\ UNCHANGED notSupervisor

\* self.cleanup() called by run, before the restart and in the finally
RunCleanup ==
    /\ s_hpc = "none"
    /\ s_pc \in CleanupPcs
    /\ \E r \in {cleanup_step(s_pc, s_ret)} :
         /\ s_pc' = r.pc
         /\ p_state' = r.p_state
    /\ UNCHANGED <<running, metro_process, display_process, s_ret, s_hpc,
                   s_signals, s_exc, s_pairs, next_pid, p_kind, p_err,
                   lock_file>>
    /\ UNCHANGED p_stdout
    /\ UNCHANGED notSupervisor

\* if self.running: time.sleep(5); then back to the outer loop test
RestartWait ==
    /\ s_hpc = "none"
    /\ s_pc = "restart_wait"
    /\ s_pc' = "while_running"
    /\ UNCHANGED <<running, metro_process, display_process, s_ret, s_hpc,
                   s_signals, s_exc, s_pairs, next_pid, p_kind, p_state,
                   p_err, lock_file>>
    /\ UNCHANGED p_stdout
    /\ UNCHANGED notSupervisor

\* remove_lock() of the finally of run; run returns
FinallyRemoveLock ==
    /\ s_hpc = "none"
    /\ s_pc = "remove_lock"
    /\ lock_file' = NoLock
    /\ s_pc' = "stopped"
    /\ UNCHANGED <<running, metro_process, display_process, s_ret, s_hpc,
                   s_signals, s_exc, s_pairs, next_pid, p_kind, p_state,
                   p_err>>
    /\ UNCHANGED p_stdout
    /\ UNCHANGED notSupervisor

\* SIGTERM or SIGINT is delivered: signal_handler interrupts run
Signal ==
    /\ s_hpc = "none"
    /\ s_pc # "stopped"
    /\ s_signals < MaxSignals
    /\ s_signals' = s_signals + 1
    /\ s_hpc' = "set_running"
    /\ UNCHANGED <<running, metro_process, display_process, s_pc, s_ret,
                   s_exc, s_pairs, next_pid, p_kind, p_state, p_err,
                   lock_file>>
    /\ UNCHANGED p_stdout
    /\ UNCHANGED notSupervisor

signal_handler_running_kept == TRUE

\* the value signal_handler assigns to self.running
signal_handler_running == FALSE

\* signal_handler: self.running = False
HandlerSetRunning ==
    /\ s_hpc = "set_running"
    /\ running' = signal_handler_running
    /\ s_hpc' = "cl_metro_term"
    /\ UNCHANGED <<metro_process, display_process, s_pc, s_ret, s_signals,
                   s_exc, s_pairs, next_pid, p_kind, p_state, p_err,
                   lock_file>>
    /\ UNCHANGED p_stdout
    /\ UNCHANGED notSupervisor

\* signal_handler: self.cleanup()
HandlerCleanup ==
    /\ s_hpc \in CleanupPcs
    /\ \E r \in {cleanup_step(s_hpc, "remove_lock")} :
         /\ s_hpc' = r.pc
         /\ p_state' = r.p_state
    /\ UNCHANGED <<running, metro_process, display_process, s_pc, s_ret,
                   s_signals, s_exc, s_pairs, next_pid, p_kind, p_err,
                   lock_file>>
    /\ UNCHANGED p_stdout
    /\ UNCHANGED notSupervisor

\* signal_handler: remove_lock(); the handler returns and run resumes
HandlerRemoveLock ==
    /\ s_hpc = "remove_lock"
    /\ lock_file' = NoLock
    /\ s_hpc' = "none"
    /\ UNCHANGED <<running, metro_process, display_process, s_pc, s_ret,
                   s_signals, s_exc, s_pairs, next_pid, p_kind, p_state,
                   p_err>>
    /\ UNCHANGED p_stdout
    /\ UNCHANGED notSupervisor

\* a child process ends: on its own, or on the SIGTERM it was sent
ChildExits(q) ==
    /\ Alive(q)
    /\ p_state' = [p_state EXCEPT ![q] = "exited"]
    /\ UNCHANGED <<running, metro_process, display_process, s_pc, s_ret,
                   s_hpc, s_signals, s_exc, s_pairs, next_pid, p_kind, p_err,
                   lock_file>>
    /\ UNCHANGED p_stdout
    /\ UNCHANGED notSupervisor

\* a child writes a line to its stderr (both children log there)
ChildLogs(q) ==
    /\ Alive(q)
    /\ p_err[q] < MaxErrLines
    /\ p_err' = [p_err EXCEPT ![q] = @ + 1]
    /\ UNCHANGED <<running, metro_process, display_process, s_pc, s_ret,
                   s_hpc, s_signals, s_exc, s_pairs, next_pid, p_kind,
                   p_state, lock_file>>
    /\ UNCHANGED p_stdout
    /\ UNCHANGED notSupervisor

\* the steps of the supervisor process itself
SupervisorStep ==
    \/ LoopTest
    \/ SpawnDisplay
    \/ SpawnMetro
    \/ SpawnFails
    \/ MonitorTest
    \/ PollMetro
    \/ PollDisplay
    \/ ReadMetroErr
    \/ ReadDisplayErr
    \/ Sleep1
    \/ RunCleanup
    \/ RestartWait
    \/ FinallyRemoveLock
    \/ HandlerSetRunning
    \/ HandlerCleanup
    \/ HandlerRemoveLock

NextSupervisor ==
    \/ SupervisorStep
    \/ Signal
    \/ \E q \in Pids : ChildExits(q)
    \/ \E q \in Pids : ChildLogs(q)

SpecSupervisor == InitSupervisor /\ [][NextSupervisor]_vars

\* The supervisor process is scheduled: it takes its next step whenever it
\* has one.  Nothing is assumed of the children or of signals.
FairSpecSupervisor == SpecSupervisor /\ WF_vars(SupervisorStep)

MonitorPcs ==
    {"monitor", "poll_metro", "poll_display", "read_metro_err",
     "read_display_err", "sleep"}

\* run is in its monitoring loop, not interrupted, and a child has exited
ChildExitedWhileMonitoring ==
    /\ running
    /\ s_hpc = "none"
    /\ s_pc \in MonitorPcs
    /\ (Dead(metro_process) \/ Dead(display_process))

\* C1: whenever a child exits while running is set, run terminates the other
\* child, waits and spawns a fresh pair: eventually a new pair has been
\* spawned (unless a shutdown signal clears running, Popen raises, or the
\* model's supply of processes is used up).
C1_RestartAfterChildExit ==
    \A n \in 0 .. MaxSpawns :
        (ChildExitedWhileMonitoring /\ s_pairs = n)
            ~> (s_pairs > n \/ ~running \/ s_exc \/ next_pid > MaxSpawns)

\* C2: the monitoring loop never waits on the children: whenever a child has
\* exited while run is monitoring, run has a step to take (it is not held in
\* a read of a stderr on which nothing arrives), so the exit is detected
\* within a bounded number of steps even if no child ever writes to stderr.
C2_DetectionNeverWaitsOnChildren ==
    ChildExitedWhileMonitoring =>
        /\ (s_pc = "read_metro_err" => readline_returns(metro_process))
        /\ (s_pc = "read_display_err" => readline_returns(display_process))

\* cleanup has returned to run (s_pc) or to signal_handler (s_hpc)
CleanupReturned ==
    \/ s_hpc = "none" /\ s_pc \in {"restart_wait", "remove_lock"}
    \/ s_hpc = "remove_lock"

\* C16: cleanup stops both children graceful-then-forced: a child is killed
\* only after it was sent terminate and had not exited when the wait timed
\* out; when cleanup returns neither the Fetcher nor the Renderer child is
\* still running; with no children set it does nothing.
C16_CleanupTerminatesThenKills ==
    /\ [][\A q \in Pids :
            (p_state'[q] = "killed" /\ p_state[q] # "killed")
                => p_state[q] = "terminating"]_vars
    /\ [](CleanupReturned =>
            ~Alive(metro_process) /\ ~Alive(display_process))
    /\ [][((s_pc \in CleanupPcs \/ s_hpc \in CleanupPcs)
            /\ metro_process = 0 /\ display_process = 0)
                => p_state' = p_state]_vars

\* cleanup has returned after killing the Fetcher, which ignored terminate,
\* while the Renderer exited on terminate
C16_Witness ==
    /\ CleanupReturned
    /\ metro_process # 0
    /\ display_process # 0
    /\ p_state[metro_process] = "killed"
    /\ p_state[display_process] = "exited"

\* signal_handler has run to its end
SignalHandled == s_signals > 0 /\ s_hpc = "none"

\* C17: after a shutdown signal is handled at any point of run, running is
\* false and stays false, run eventually returns, and when it has returned no
\* child process is alive (no new pair is left running) and the lock file has
\* been removed.
C17_ShutdownCompletes ==
    /\ [](SignalHandled => ~running)
    /\ [][~running => ~running']_vars
    /\ SignalHandled ~> (s_pc = "stopped")
    /\ []((SignalHandled /\ s_pc = "stopped") =>
            /\ \A q \in Pids : ~Alive(q)
            /\ lock_file = NoLock)

\* run has returned after a signal that arrived while a pair was monitored
C17_Witness ==
    /\ SignalHandled
    /\ s_pc = "stopped"
    /\ s_pairs >= 1
    /\ \E q \in Pids : p_state[q] = "killed"

\* C18: a new MetroDisplayRunner has no child processes and running = true;
\* while both children of the current pair stay alive the supervisor spawns
\* nothing; processes are spawned one at a time, a Renderer first and then a
\* Fetcher whose stdout is attached to the stdin of that Renderer.
C18_SpawnsOnePairInOrder ==
    /\ (metro_process = 0 /\ display_process = 0 /\ running = TRUE)
    /\ [][next_pid' # next_pid =>
            /\ next_pid' = next_pid + 1
            /\ ~(Alive(metro_process) /\ Alive(display_process))
            /\ p_state'[next_pid] = "running"
            /\ IF s_pc = "spawn_display"
               THEN /\ p_kind'[next_pid] = "display"
                    /\ display_process' = next_pid
                    /\ s_pc' = "spawn_metro"
               ELSE /\ s_pc = "spawn_metro"
                    /\ p_kind'[next_pid] = "metro"
                    /\ metro_process' = next_pid
                    /\ display_process = next_pid - 1
                    /\ p_kind[display_process] = "display"
                    /\ p_stdout'[next_pid] = display_process]_vars
    /\ [](s_pc \in MonitorPcs =>
            /\ p_kind[metro_process] = "metro"
            /\ p_kind[display_process] = "display"
            /\ p_stdout[metro_process] = display_process
            /\ metro_process = display_process + 1)

\* a second pair is being monitored, both of its processes alive
C18_Witness ==
    /\ s_pc = "sleep"
    /\ s_pairs = 2
    /\ Alive(metro_process)
    /\ Alive(display_process)
    /\ p_stdout[metro_process] = display_process

\* C30: the supervisor keeps supervising for as long as running is true:
\* run returns only after a shutdown signal cleared running, and after an
\* exception in spawning a child it reaches a running pair again (unless a
\* shutdown signal clears running).
C30_OnlyASignalEndsSupervision ==
    /\ [](s_pc = "stopped" => ~running)
    /\ (s_exc /\ running)
          ~> ((Alive(metro_process) /\ Alive(display_process)
               /\ s_pc \in MonitorPcs) \/ ~running)

\* the children of one kind that are alive
AliveOfKind(kind) == { q \in Pids : Alive(q) /\ p_kind[q] = kind }

\* C28: at every moment of a supervisor run, across restarts and with a
\* shutdown signal arriving at any point, at most one Fetcher child and at
\* most one Renderer child are alive; the first process of a new pair is
\* spawned only when no child of an earlier pair is alive; no child is alive
\* after run has returned.
C28_AtMostOnePairAlive ==
    /\ [](Cardinality(AliveOfKind("metro")) <= 1)
    /\ [](Cardinality(AliveOfKind("display")) <= 1)
    /\ [][(next_pid' # next_pid /\ s_pc = "spawn_display")
            => \A q \in Pids : ~Alive(q)]_vars
    /\ [][(next_pid' # next_pid /\ s_pc = "spawn_metro")
            => AliveOfKind("metro") = {}]_vars
    /\ []((s_pc = "stopped" /\ s_hpc = "none")
            => \A q \in Pids : ~Alive(q))

\* run has returned after a restart and a shutdown signal, every one of the
\* four children it spawned gone
C28_Witness ==
    /\ s_pc = "stopped"
    /\ s_hpc = "none"
    /\ s_pairs = 2
    /\ s_signals = 1
    /\ next_pid = 5
    /\ \A q \in 1 .. 4 : Dead(q)

(***************************************************************************)
(* SpecPipe: a producer of status lines (metro.py under the supervisor, or *)
(* simple_metro_data.py in a shell pipeline) writing to the stdin of       *)
(* display.py through an OS pipe.  Time is in seconds; a step that is due  *)
(* is taken before time passes, and every step takes no time: the timing   *)
(* most favourable to the reader.  A line is the pair that emitted it and  *)
(* its number within that pair.                                            *)
(***************************************************************************)

MaxTime == 40

MaxPairs == 2

Producers == {"metro.py", "simple_metro_data.py"}

\* what one iteration of the producer's loop does: whether it prints a line,
\* and the sleep that ends it
producer_cycles(producer) ==
    IF producer = "metro.py"
    THEN {[emit |-> TRUE, delay |-> 30], [emit |-> FALSE, delay |-> 30],
          [emit |-> TRUE, delay |-> 300], [emit |-> FALSE, delay |-> 5]}
    ELSE {[emit |-> TRUE, delay |-> 8]}

\* time.sleep(30) of display.py main after update_display
display_sleep == 30

\* metro.py catches the BrokenPipeError of print and sleeps 5 s;
\* simple_metro_data.py catches KeyboardInterrupt only
broken_pipe_delay == 5

catches_broken_pipe(producer) == producer = "metro.py"

\* the supervisor keeps its own handle on the write end of the Renderer's
\* stdin; a shell pipeline closes it when the producer ends
writer_held_open(producer) == producer = "metro.py"

stdin_readline_last(pipe) ==
    [line |-> pipe[Len(pipe)], rest |-> SubSeq(pipe, 1, Len(pipe) - 1)]

\* sys.stdin.readline() on a pipe that holds a line: the oldest line
stdin_readline(pipe) ==
    [line |-> Head(pipe), rest |-> Tail(pipe)]

InitPipe ==
    /\ HoursIdle
    /\ FetcherIdle
    /\ RendererIdle
    /\ LockIdle
    /\ SupervisorIdle
    /\ GlyphIdle
    /\ DisplayIdle
    /\ w_pc = "run"
    /\ w_producer \in Producers
    /\ w_now = 0
    /\ w_emit_at = 0
    /\ w_read_at = 0
    /\ w_pipe = <<>>
    /\ w_emitted = 0
    /\ w_rendered = <<>>
    /\ w_pair = 1
    /\ w_fetcher_alive = TRUE
    /\ w_renderer_alive = TRUE

ProducerDue == w_fetcher_alive /\ w_now >= w_emit_at

ReaderDue == w_renderer_alive /\ w_pipe # <<>> /\ w_now >= w_read_at

\* one iteration of the producer's loop: print(json.dumps(...), flush=True)
\* or nothing, then time.sleep
ProducerCycle ==
    /\ w_pc = "run"
    /\ ProducerDue
    /\ \E c \in producer_cycles(w_producer) :
         IF ~c.emit
         THEN /\ w_emit_at' = w_now + c.delay
              /\ UNCHANGED <<w_pipe, w_emitted, w_fetcher_alive>>
         ELSE IF w_renderer_alive
         THEN /\ w_pipe' = Append(w_pipe, [pair |-> w_pair, n |-> w_emitted + 1])
              /\ w_emitted' = w_emitted + 1
              /\ w_emit_at' = w_now + c.delay
              /\ UNCHANGED w_fetcher_alive
         ELSE IF catches_broken_pipe(w_producer)
         THEN /\ w_emit_at' = w_now + broken_pipe_delay
              /\ UNCHANGED <<w_pipe, w_emitted, w_fetcher_alive>>
         ELSE /\ w_fetcher_alive' = FALSE
              /\ UNCHANGED <<w_pipe, w_emitted, w_emit_at>>
    /\ UNCHANGED <<w_pc, w_producer, w_now, w_read_at, w_rendered, w_pair,
                   w_renderer_alive>>
    /\ UNCHANGED <<hoursVars, fetcherVars, rendererVars, lockVars,
                   supervisorVars, glyphVars,
                   displayVars>>

\* display.py main: readline, json.loads, update_display, time.sleep(30)
RendererRead ==
    /\ w_pc = "run"
    /\ ReaderDue
    /\ \E r \in {stdin_readline(w_pipe)} :
         /\ w_pipe' = r.rest
         /\ w_rendered' = Append(w_rendered, r.line)
    /\ w_read_at' = w_now + display_sleep
    /\ UNCHANGED <<w_pc, w_producer, w_now, w_emit_at, w_emitted, w_pair,
                   w_fetcher_alive, w_renderer_alive>>
    /\ UNCHANGED <<hoursVars, fetcherVars, rendererVars, lockVars,
                   supervisorVars, glyphVars,
                   displayVars>>

\* display.py main: readline returns "" at end-of-file, the loop breaks
RendererEof ==
    /\ w_pc = "run"
    /\ w_renderer_alive
    /\ w_pipe = <<>>
    /\ ~w_fetcher_alive
    /\ ~writer_held_open(w_producer)
    /\ w_renderer_alive' = FALSE
    /\ UNCHANGED <<w_pc, w_producer, w_now, w_emit_at, w_read_at, w_pipe,
                   w_emitted, w_rendered, w_pair, w_fetcher_alive>>
    /\ UNCHANGED <<hoursVars, fetcherVars, rendererVars, lockVars,
                   supervisorVars, glyphVars,
                   displayVars>>

\* the producer process ends (crash or signal)
FetcherExits ==
    /\ w_pc = "run"
    /\ w_fetcher_alive
    /\ w_fetcher_alive' = FALSE
    /\ UNCHANGED <<w_pc, w_producer, w_now, w_emit_at, w_read_at, w_pipe,
                   w_emitted, w_rendered, w_pair, w_renderer_alive>>
    /\ UNCHANGED <<hoursVars, fetcherVars, rendererVars, lockVars,
                   supervisorVars, glyphVars,
                   displayVars>>

\* the Renderer process ends; what it had not read is lost with the pipe
RendererExits ==
    /\ w_pc = "run"
    /\ w_renderer_alive
    /\ w_renderer_alive' = FALSE
    /\ w_pipe' = <<>>
    /\ UNCHANGED <<w_pc, w_producer, w_now, w_emit_at, w_read_at, w_emitted,
                   w_rendered, w_pair, w_fetcher_alive>>
    /\ UNCHANGED <<hoursVars, fetcherVars, rendererVars, lockVars,
                   supervisorVars, glyphVars,
                   displayVars>>

\* MetroDisplayRunner.run after a child died: cleanup, then a new display.py
\* with a new pipe and a new metro.py writing to it
RespawnPair ==
    /\ w_pc = "run"
    /\ writer_held_open(w_producer)
    /\ ~w_fetcher_alive \/ ~w_renderer_alive
    /\ w_pair < MaxPairs
    /\ w_pair' = w_pair + 1
    /\ w_pipe' = <<>>
    /\ w_emitted' = 0
    /\ w_rendered' = <<>>
    /\ w_fetcher_alive' = TRUE
    /\ w_renderer_alive' = TRUE
    /\ w_emit_at' = w_now
    /\ w_read_at' = w_now
    /\ UNCHANGED <<w_pc, w_producer, w_now>>
    /\ UNCHANGED <<hoursVars, fetcherVars, rendererVars, lockVars,
                   supervisorVars, glyphVars,
                   displayVars>>

\* a second passes while no step of either process is due
Tick ==
    /\ w_pc = "run"
    /\ ~ProducerDue
    /\ ~ReaderDue
    /\ w_now < MaxTime
    /\ w_now' = w_now + 1
    /\ UNCHANGED <<w_pc, w_producer, w_emit_at, w_read_at, w_pipe, w_emitted,
                   w_rendered, w_pair, w_fetcher_alive, w_renderer_alive>>
    /\ UNCHANGED <<hoursVars, fetcherVars, rendererVars, lockVars,
                   supervisorVars, glyphVars,
                   displayVars>>

NextPipe ==
    \/ ProducerCycle
    \/ RendererRead
    \/ RendererEof
    \/ FetcherExits
    \/ RendererExits
    \/ RespawnPair
    \/ Tick

SpecPipe == InitPipe /\ [][NextPipe]_vars

\* C14: every status line the Fetcher emits while a pair is running is
\* delivered to the stdin of the Renderer of the same pair, and the Renderer
\* processes the lines in the order they were emitted, none skipped or
\* duplicated, for as long as both processes of the pair stay alive.
C14_PipeIsFifoWithinPair ==
    w_pc = "run" =>
        /\ \A i \in 1 .. Len(w_rendered) :
               w_rendered[i] = [pair |-> w_pair, n |-> i]
        /\ (w_fetcher_alive /\ w_renderer_alive =>
               /\ Len(w_rendered) + Len(w_pipe) = w_emitted
               /\ \A j \in 1 .. Len(w_pipe) :
                      w_pipe[j] = [pair |-> w_pair, n |-> Len(w_rendered) + j])

\* the Renderer has processed two lines while more are waiting
C14_Witness ==
    /\ w_fetcher_alive
    /\ w_renderer_alive
    /\ Len(w_rendered) >= 2
    /\ Len(w_pipe) >= 2

\* C15: statuses are consumed as soon as they are produced: with any of the
\* repository's producers feeding the Renderer, the number of emitted lines
\* waiting in the pipe never exceeds one.
C15_AtMostOneLineWaiting ==
    (w_pc = "run" /\ w_fetcher_alive /\ w_renderer_alive) => Len(w_pipe) <= 1

(***************************************************************************)
(* SpecGlyph: draw_5x7_char and draw_5x7_text on an empty image, for texts  *)
(* of characters inside and outside the glyph table, at positions up to    *)
(* the right edge.                                                         *)
(***************************************************************************)

MaxTextLen == 2

\* "C", "s", "_" and "~" are not keys of the glyph table
GlyphChars == {"A", "a", "0", "!", " ", "C", "s", "_", "~"}

GlyphTexts == UNION { [1 .. k -> GlyphChars] : k \in 1 .. MaxTextLen }

GlyphColumns == {0, 2, 54, 59, 60}

InitGlyph ==
    /\ HoursIdle
    /\ FetcherIdle
    /\ RendererIdle
    /\ LockIdle
    /\ SupervisorIdle
    /\ PipeIdle
    /\ DisplayIdle
    /\ g_pc = "call"
    /\ g_x \in GlyphColumns
    /\ g_y = 2
    /\ g_text \in GlyphTexts
    /\ g_frame = {}
    /\ g_width = 0

\* self.draw_5x7_char(x, y, char, color) on the first character
DrawChar ==
    /\ g_pc = "call"
    /\ \E r \in {draw_5x7_char(g_frame, g_x, g_y, g_text[1], colors.white)} :
         /\ g_frame' = r.img
         /\ g_width' = r.width
    /\ g_pc' = "char_done"
    /\ UNCHANGED <<g_x, g_y, g_text>>
    /\ UNCHANGED <<hoursVars, fetcherVars, rendererVars, lockVars,
                   supervisorVars, pipeVars,
                   displayVars>>

\* self.draw_5x7_text(x, y, text, color)
DrawText ==
    /\ g_pc = "call"
    /\ \E r \in {draw_5x7_text(g_frame, g_x, g_y, g_text, colors.white)} :
         /\ g_frame' = r.img
         /\ g_width' = r.width
    /\ g_pc' = "text_done"
    /\ UNCHANGED <<g_x, g_y, g_text>>
    /\ UNCHANGED <<hoursVars, fetcherVars, rendererVars, lockVars,
                   supervisorVars, pipeVars,
                   displayVars>>

NextGlyph ==
    \/ DrawChar
    \/ DrawText

SpecGlyph == InitGlyph /\ [][NextGlyph]_vars

\* the lit pixels of the glyph of c drawn at column x0, relative to its top
\* left corner; the image keeps only the columns inside it
GlyphBits(c, x0) ==
    { q \in (0 .. 4) \X (0 .. 6) :
        /\ bit_set(font_5x7[c][q[1] + 1], q[2])
        /\ x0 + q[1] < image_width }

\* the pixels of the frame in the 6-wide cell that starts at column x0
CellBits(frame, x0, y0) ==
    { <<p[1] - x0, p[2] - y0>> : p \in { t \in frame : t[1] \in x0 .. x0 + 5 } }

\* the characters draw_5x7_text draws before it runs out of space
DrawnIndexes(text, x) ==
    { i \in 1 .. Len(text) : x + 6 * (i - 1) + 5 <= image_width }

\* C20: draw_5x7_char renders every character that is not a key of the glyph
\* table as a space: it lights no pixel and still advances the cursor by 6,
\* so draw_5x7_text puts the i-th character of any string in the cell that
\* starts at x + 6 * (i - 1).
C20_UnknownCharIsBlankFixedWidth ==
    /\ (g_pc = "char_done" /\ g_text[1] \notin DOMAIN font_5x7
            => g_frame = {} /\ g_width = 6)
    /\ (g_pc = "char_done" /\ g_text[1] \in DOMAIN font_5x7
            => CellBits(g_frame, g_x, g_y) = GlyphBits(g_text[1], g_x)
               /\ g_width = 6)
    /\ (g_pc = "text_done" =>
            /\ g_width = 6 * Cardinality(DrawnIndexes(g_text, g_x))
            /\ \A i \in DrawnIndexes(g_text, g_x) :
                   CellBits(g_frame, g_x + 6 * (i - 1), g_y) =
                       IF g_text[i] \in DOMAIN font_5x7
                       THEN GlyphBits(g_text[i], g_x + 6 * (i - 1)) ELSE {}
            /\ \A p \in g_frame :
                   \E i \in DrawnIndexes(g_text, g_x) :
                       p[1] \in g_x + 6 * (i - 1) .. g_x + 6 * (i - 1) + 4)

\* a text whose first character is unknown and whose second has a glyph
C20_Witness ==
    /\ g_pc = "text_done"
    /\ g_text = <<"C", "A">>
    /\ g_x = 2
    /\ g_width = 12
    /\ g_frame # {}

\* C27: draw_5x7_text draws a character only if its whole 5-column cell fits
\* (cursor + 5 <= 64) and stops at the first one that does not; every lit
\* pixel has x between the start column and 63, and the returned width is 6
\* times the number of characters drawn.
C27_TextStaysInsideFrame ==
    g_pc = "text_done" =>
        \E n \in 0 .. Len(g_text) :
            /\ g_width = 6 * n
            /\ \A i \in 1 .. n : g_x + 6 * (i - 1) + 5 <= image_width
            /\ (n < Len(g_text) => g_x + 6 * n + 5 > image_width)
            /\ \A i \in 1 .. n :
                  CellBits(g_frame, g_x + 6 * (i - 1), g_y) =
                      IF g_text[i] \in DOMAIN font_5x7
                      THEN { q \in (0 .. 4) \X (0 .. 6) :
                               bit_set(font_5x7[g_text[i]][q[1] + 1], q[2]) }
                      ELSE {}
            /\ \A p \in g_frame :
                  /\ p[1] \in g_x .. image_width - 1
                  /\ p[1] < g_x + 6 * n

\* a text cut at the right edge: the first character ends in column 63, the
\* second is not drawn
C27_Witness ==
    /\ g_pc = "text_done"
    /\ g_x = 59
    /\ g_text = <<"A", "0">>
    /\ g_width = 6
    /\ \E p \in g_frame : p[1] = 63

(***************************************************************************)
(* SpecDisplay: display.py main.  A writer puts lines on the Renderer's    *)
(* stdin (the lines the Fetcher can print and lines that are not JSON) and *)
(* may close it; the Renderer constructs MetroDisplay, then reads, shows   *)
(* and sleeps.  A supervisor may start a new Renderer after one exited.    *)
(*                                                                         *)
(* A JSON text is a tree of tagged nodes: "string" with its characters,    *)
(* "true", "false", "object" with its members; "invalid" is a text that    *)
(* json.loads rejects.                                                     *)
(***************************************************************************)

MaxLines == 2

MaxRenderers == 2

\* time.sleep(5) of both except clauses of display.py main
error_sleep == 5

\* the keys of the Fetcher's dictionaries whose values are dictionaries, and
\* the one whose value is a bool; every other value is a str
DictKeys == {"operating_hours", "lines", "all_frequencies", "1", "2"}

BoolKeys == {"is_operating"}

\* json.dumps of a dictionary the Fetcher builds
RECURSIVE json_dumps(_)
json_dumps(d) ==
    [t |-> "object",
     m |-> [k \in DOMAIN d |->
              IF k \in BoolKeys THEN [t |-> IF d[k] THEN "true" ELSE "false"]
              ELSE IF k \in DictKeys THEN json_dumps(d[k])
              ELSE [t |-> "string", s |-> d[k]]]]

json_literal_always_true(t) == TRUE

\* the Python value of the JSON literals true and false
json_literal(t) == t = "true"

\* the Python value json.loads builds from a JSON text
RECURSIVE json_value(_)
json_value(j) ==
    CASE j.t = "string" -> j.s
      [] j.t \in {"true", "false"} -> json_literal(j.t)
      [] j.t = "object" -> [k \in DOMAIN j.m |-> json_value(j.m[k])]

\* json.loads: raises json.JSONDecodeError on a text that is not JSON
json_loads(j) ==
    IF j.t = "invalid"
    THEN [raised |-> TRUE, value |-> NoStatus]
    ELSE [raised |-> FALSE, value |-> json_value(j)]

\* the dictionaries metro.py main prints: closed_data, and every value
\* get_station_data returns without an exception
FetcherStatuses ==
    {closed_data} \cup
    { r.data : r \in { q \in { get_station_data(api, dow, now) :
                                  api \in ApiOutcomes, dow \in FetcherDays,
                                  now \in FetcherTimes } :
                           q.exc = "none" /\ ~q.isNone } }

\* the lines a writer can put on the Renderer's stdin; "of" remembers the
\* dictionary a Fetcher line was printed from
StdinLines ==
    { [text |-> json_dumps(d), of |-> d] : d \in FetcherStatuses }
    \cup {[text |-> [t |-> "invalid"], of |-> NoStatus]}

on_json_error_exits == [shown |-> "error", delay |-> error_sleep,
                        exit |-> "exception"]

\* except json.JSONDecodeError: show_error, sleep, and the loop goes on
on_json_error == [shown |-> "error", delay |-> error_sleep, exit |-> "none"]

matrix_init_failure_status_zero == "0"

\* sys.exit(1) of MetroDisplay.__init__ when RGBMatrix(options=options) raises
matrix_init_failure_status == "1"

InitDisplay ==
    /\ HoursIdle
    /\ FetcherIdle
    /\ RendererIdle
    /\ LockIdle
    /\ SupervisorIdle
    /\ PipeIdle
    /\ GlyphIdle
    /\ d_pc = "init"
    /\ d_hw_ok \in BOOLEAN
    /\ d_stdin = <<>>
    /\ d_eof = FALSE
    /\ d_written = 0
    /\ d_line = [text |-> [t |-> "none"], of |-> NoStatus]
    /\ d_station_data = NoStatus
    /\ d_shown = "none"
    /\ d_delay = 0
    /\ d_exit = "none"
    /\ d_status = "none"
    /\ d_reads = 0
    /\ d_errors = 0
    /\ d_spawns = 1
    /\ d_init_failed = FALSE

notDisplay == <<hoursVars, fetcherVars, rendererVars, lockVars, supervisorVars,
                pipeVars, glyphVars>>

\* display = MetroDisplay()
DisplayInit ==
    /\ d_pc = "init"
    /\ IF d_hw_ok
       THEN /\ d_pc' = "read"
            /\ UNCHANGED <<d_exit, d_status, d_init_failed>>
       ELSE /\ d_pc' = "exited"
            /\ d_exit' = "init_failure"
            /\ d_status' = matrix_init_failure_status
            /\ d_init_failed' = TRUE
    /\ UNCHANGED <<d_hw_ok, d_stdin, d_eof, d_written, d_line, d_station_data,
                   d_shown, d_delay, d_reads, d_errors, d_spawns>>
    /\ UNCHANGED notDisplay

\* line = sys.stdin.readline() returns a line; json.loads; update_display or
\* the except clause; time.sleep
DisplayRead ==
    /\ d_pc = "read"
    /\ d_stdin # <<>>
    /\ d_line' = Head(d_stdin)
    /\ d_stdin' = Tail(d_stdin)
    /\ d_reads' = d_reads + 1
    /\ \E r \in {json_loads(Head(d_stdin).text)} :
         IF r.raised
         THEN \E e \in {on_json_error} :
                /\ d_shown' = e.shown
                /\ d_delay' = e.delay
                /\ d_exit' = e.exit
                /\ d_errors' = d_errors + 1
                /\ IF e.exit = "none"
                   THEN d_pc' = "sleep" /\ UNCHANGED d_status
                   ELSE d_pc' = "exited" /\ d_status' = "1"
                /\ UNCHANGED d_station_data
         ELSE /\ d_station_data' = r.value
              /\ d_shown' = "update_display"
              /\ d_delay' = display_sleep
              /\ d_pc' = "sleep"
              /\ UNCHANGED <<d_exit, d_status, d_errors>>
    /\ UNCHANGED <<d_hw_ok, d_eof, d_written, d_spawns, d_init_failed>>
    /\ UNCHANGED notDisplay

\* readline returns "" at end-of-file: break, the finally clause, exit 0
DisplayEof ==
    /\ d_pc = "read"
    /\ d_stdin = <<>>
    /\ d_eof
    /\ d_pc' = "exited"
    /\ d_exit' = "eof"
    /\ d_status' = "0"
    /\ UNCHANGED <<d_hw_ok, d_stdin, d_eof, d_written, d_line, d_station_data,
                   d_shown, d_delay, d_reads, d_errors, d_spawns,
                   d_init_failed>>
    /\ UNCHANGED notDisplay

\* time.sleep returns
DisplayWake ==
    /\ d_pc = "sleep"
    /\ d_pc' = "read"
    /\ UNCHANGED <<d_hw_ok, d_stdin, d_eof, d_written, d_line, d_station_data,
                   d_shown, d_delay, d_exit, d_status, d_reads, d_errors,
                   d_spawns, d_init_failed>>
    /\ UNCHANGED notDisplay

\* SIGTERM or SIGINT: MetroDisplay.signal_handler clears and calls sys.exit(0)
DisplaySignal ==
    /\ d_pc \in {"read", "sleep"}
    /\ d_pc' = "exited"
    /\ d_exit' = "signal"
    /\ d_status' = "0"
    /\ UNCHANGED <<d_hw_ok, d_stdin, d_eof, d_written, d_line, d_station_data,
                   d_shown, d_delay, d_reads, d_errors, d_spawns,
                   d_init_failed>>
    /\ UNCHANGED notDisplay

\* the writing end puts one line on the pipe
WriterWrites ==
    /\ d_pc # "exited"
    /\ ~d_eof
    /\ d_stdin = <<>>
    /\ d_written < MaxLines
    /\ \E line \in StdinLines : d_stdin' = Append(d_stdin, line)
    /\ d_written' = d_written + 1
    /\ UNCHANGED <<d_pc, d_hw_ok, d_eof, d_line, d_station_data, d_shown,
                   d_delay, d_exit, d_status, d_reads, d_errors, d_spawns,
                   d_init_failed>>
    /\ UNCHANGED notDisplay

\* the writing end is closed
WriterCloses ==
    /\ d_pc # "exited"
    /\ ~d_eof
    /\ d_eof' = TRUE
    /\ UNCHANGED <<d_pc, d_hw_ok, d_stdin, d_written, d_line, d_station_data,
                   d_shown, d_delay, d_exit, d_status, d_reads, d_errors,
                   d_spawns, d_init_failed>>
    /\ UNCHANGED notDisplay

\* MetroDisplayRunner.run finds display_process.poll() is not None, cleans
\* up, sleeps and starts a new pair
SupervisorRespawns ==
    /\ d_pc = "exited"
    /\ d_spawns < MaxRenderers
    /\ d_pc' = "init"
    /\ d_hw_ok' \in BOOLEAN
    /\ d_stdin' = <<>>
    /\ d_eof' = FALSE
    /\ d_written' = 0
    /\ d_exit' = "none"
    /\ d_status' = "none"
    /\ d_reads' = 0
    /\ d_errors' = 0
    /\ d_shown' = "none"
    /\ d_spawns' = d_spawns + 1
    /\ UNCHANGED <<d_line, d_station_data, d_delay, d_init_failed>>
    /\ UNCHANGED notDisplay

NextDisplay ==
    \/ DisplayInit
    \/ DisplayRead
    \/ DisplayEof
    \/ DisplayWake
    \/ DisplaySignal
    \/ WriterWrites
    \/ WriterCloses
    \/ SupervisorRespawns

SpecDisplay == InitDisplay /\ [][NextDisplay]_vars

\* C22: a line that is not valid JSON never ends the Renderer: it shows the
\* error frame, sleeps error_sleep seconds and reads again; the Renderer
\* leaves its read loop only at end-of-file or on a signal.
C22_InvalidJsonNeverEndsRenderer ==
    /\ [](d_pc = "exited" => d_exit \in {"init_failure", "eof", "signal"})
    /\ []((d_pc = "sleep" /\ d_line.text.t = "invalid")
            => d_shown = "error" /\ d_delay = error_sleep)
    /\ [][(d_pc = "sleep" /\ d_pc' # "sleep")
            => (d_pc' = "read" \/ d_exit' = "signal")]_vars
    /\ [][(d_pc = "read" /\ d_pc' = "exited")
            => ((d_stdin = <<>> /\ d_eof /\ d_exit' = "eof")
                \/ d_exit' = "signal")]_vars

\* an invalid line was read, and after it a valid one was read and shown
C22_Witness ==
    /\ d_pc = "sleep"
    /\ d_reads = 2
    /\ d_errors = 1
    /\ d_line.text.t = "object"
    /\ d_shown = "update_display"

====
